---- MODULE Spec2Model ----
(***************************************************************************)
(* Model of the analysis synthesis pipeline of code-craft:                 *)
(*   - AnalysisEngine.mergeAnalyses / mergeSecurityAnalyses (reconciler),  *)
(*   - DocumentProcessor.analyzeSolidityContracts / parseSolidityContract  *)
(*     / calculateComplexity (contract analyzer),                          *)
(*   - AnalysisEngine.analyzeProtocol, LLMAdapter.analyzeProtocol and the  *)
(*     UploadInterface.processAnalysis race against the 5-minute timer.    *)
(*                                                                         *)
(* JavaScript values are represented as follows.                           *)
(*   - A string field is a string; Undefined stands for undefined/null and *)
(*     EmptyStr for "", the two falsy values a string field can take.      *)
(*   - A field that the code spreads ("...(x || [])") is a record          *)
(*     [kind, items]: kind "undefined" (any falsy value), "noniterable" (a *)
(*     truthy value without an iterator: number, true, plain object) or    *)
(*     "array" with its items.                                             *)
(*   - A section of the enhancement is a record with a flag present;       *)
(*     present = FALSE is undefined/null, on which a property read throws. *)
(*   - A call that may throw returns [threw, value].                       *)
(* Numbers with one decimal are kept in tenths (5.2 is 52).                *)
(***************************************************************************)
EXTENDS Integers, Sequences, FiniteSets, TLC

VARIABLES
    mBase,      \* mergeAnalyses: the baseResult argument
    mLlm,       \* mergeAnalyses: the llmResult argument
    mOut,       \* mergeAnalyses: [threw, value] once the call is over
    mPc,        \* "call" before mergeAnalyses runs, "done" after
    pFile,      \* parseSolidityContract: the file argument
    pOut,       \* parseSolidityContract: [threw, value] once the call is over
    pPc,        \* "call" before parseSolidityContract runs, "done" after
    files,      \* analyzeSolidityContracts: the files argument
    fIdx,       \* number of Solidity files the for loop has been through
    analyses,   \* the analyses array built by the loop
    fPc,        \* "loop" while the for loop runs, "returned" after return
    llmEnabled, \* AnalysisEngine.llmEnabled, fixed by the constructor
    ePc,        \* analyzeProtocol: the await it is suspended at, or its end
    eBase,      \* analyzeProtocol: baseResult
    sub,        \* the three promises of LLMAdapter.analyzeProtocol
    eLlm,       \* analyzeProtocol: llmResult, once the adapter has returned
    eResult,    \* what the promise of analyzeProtocol settled with
    timer,      \* the 5-minute timeout of processAnalysis
    uiPc,       \* processAnalysis: the await it is suspended at, or its end
    uiState,    \* uploadState / analysisState: status, message, progress
    appResult,  \* App.analysisResult
    timeoutPhase, \* history: ePc at the moment the timeout won the race
    bFiles,     \* processGitHubRepository: the files of the repository
    bRepo,      \* analyzeProtocol: repoData
    bDocs,      \* analyzeProtocol: docsData
    bBase,      \* analyzeProtocol: baseResult as generateBaseAnalysis built it
    bDiagrams,  \* the Mermaid diagrams of baseResult.architecture, line by line
    bLlm,       \* analyzeProtocol: llmResult
    bOut,       \* the report analyzeProtocol returned
    bPc,        \* analyzeProtocol: "repo", "facts", "base", "returned"
    oFacts,     \* generateBaseAnalysis: repoData.contractAnalysis
    oDocs,      \* generateBaseAnalysis: docsData
    oBase,      \* the report generateBaseAnalysis built from oFacts
    oDiagrams,  \* its Mermaid diagrams, line by line
    oOrder,     \* the same facts in another order
    oReordered, \* the report generateBaseAnalysis built from oOrder
    oPc,        \* "facts", "base", "reordered"
    rRuns,      \* the calls of processAnalysis so far, oldest first
    rState,     \* uploadState / analysisState across the calls
    rResult,    \* App.analysisResult: 0 for null, else the run it came from
    gReplies,   \* what the GitHub API answers to each getContent request
    gOut,       \* what the promise of processGitHubRepository settled with
    gPc,        \* "call" before processGitHubRepository runs, "done" after
    dReplies,   \* what each fetch of processDocumentationUrl is answered
    dIdx,       \* the strategy in turn: 0 direct fetch, i the i-th proxy
    dOut,       \* what the promise of processDocumentationUrl settled with
    dPc         \* "direct", "proxies", "done"

mergeVars == <<mBase, mLlm, mOut, mPc>>
parseVars == <<pFile, pOut, pPc>>
filesVars == <<files, fIdx, analyses, fPc>>

runVars == <<llmEnabled, ePc, eBase, sub, eLlm, eResult, timer, uiPc,
             uiState, appResult, timeoutPhase>>

baseVars == <<bFiles, bRepo, bDocs, bBase, bDiagrams, bLlm, bOut, bPc>>

orderVars == <<oFacts, oDocs, oBase, oDiagrams, oOrder, oReordered, oPc>>

runsVars == <<rRuns, rState, rResult>>

treeVars == <<gReplies, gOut, gPc>>

docsVars == <<dReplies, dIdx, dOut, dPc>>

\* the variables of the parts that are modelled on their own
restVars == <<orderVars, runsVars, treeVars, docsVars>>

vars == <<mBase, mLlm, mOut, mPc, pFile, pOut, pPc, files, fIdx, analyses,
          fPc, llmEnabled, ePc, eBase, sub, eLlm, eResult, timer, uiPc,
          uiState, appResult, timeoutPhase, bFiles, bRepo, bDocs, bBase,
          bDiagrams, bLlm, bOut, bPc, oFacts, oDocs, oBase, oDiagrams,
          oOrder, oReordered, oPc, rRuns, rState, rResult, gReplies, gOut,
          gPc, dReplies, dIdx, dOut, dPc>>

-----------------------------------------------------------------------------
(* Bounds *)

MaxEnhLen == 2      \* longest list the enhancement supplies for a list field
MaxFunctions == 3   \* most function declarations of an ordinary file
MaxIfs == 2         \* most if keywords in a file
MaxFiles == 3       \* most files of a repository
MaxContracts == 2   \* most Solidity files of an analyzed repository
MaxFacts == 3       \* most facts of a list handed to generateBaseAnalysis
MaxRuns == 2        \* most clicks on the Analyze button
MaxDepth == 2       \* deepest directory of a repository, the root being 0

-----------------------------------------------------------------------------
(* JavaScript value helpers *)

Undefined == "undefined"
EmptyStr == ""

BoundedSeq(S, n) == UNION {[1..k -> S] : k \in 0..n}

SeqToSet(s) == {s[i] : i \in 1..Len(s)}

NoDuplicates(s) == \A i, j \in 1..Len(s) : i # j => s[i] # s[j]

\* JavaScript truthiness of a string-or-undefined field
Truthy(v) == v # Undefined /\ v # EmptyStr

\* A plausible slip: a ?? b, which lets an empty string through.
OrElseNullish(a, b) == IF a # Undefined THEN a ELSE b

\* a || b on string fields
OrElse(a, b) == IF Truthy(a) THEN a ELSE b

UndefinedList == [kind |-> "undefined", items |-> <<>>]
NonIterable == [kind |-> "noniterable", items |-> <<>>]
ArrayOf(s) == [kind |-> "array", items |-> s]

\* ...(x || []) : the items spread into the array literal, or a TypeError
\* when x is truthy and not iterable.  An empty array is truthy and spreads
\* nothing.
SpreadOrEmpty(x) ==
    CASE x.kind = "undefined" -> [threw |-> FALSE, items |-> <<>>]
      [] x.kind = "noniterable" -> [threw |-> TRUE, items |-> <<>>]
      [] OTHER -> [threw |-> FALSE, items |-> x.items]

\* [...new Set(s)] : a Set keeps the first occurrence of every value, in
\* insertion order.
RECURSIVE NewSetSpread(_)
NewSetSpread(s) ==
    IF s = <<>> THEN <<>>
    ELSE LET init == NewSetSpread(SubSeq(s, 1, Len(s) - 1))
             x == s[Len(s)]
         IN  IF x \in SeqToSet(init) THEN init ELSE Append(init, x)

\* A plausible slip: the Set is dropped and the two lists are concatenated.
UnionListsNoSet(baseList, extra) == baseList \o extra

\* [...new Set([...baseList, ...extra])]
UnionLists(baseList, extra) == NewSetSpread(baseList \o extra)

-----------------------------------------------------------------------------
(* Reports (src/unnamed/part_003, types) *)

TBase == "t_base"       \* timestamp set by generateBaseAnalysis
TLlm == "t_llm"         \* timestamp set by LLMAdapter.analyzeProtocol
TMerge == "t_merge"     \* timestamp set by mergeAnalyses

\* A finding the way an older base analysis produced it: a plain string.
StringFinding(s) ==
    [kind |-> "string", name |-> s, description |-> Undefined,
     severity |-> Undefined, exploitability |-> Undefined,
     category |-> Undefined, mitigation |-> Undefined]

\* A VulnerabilityDetail record.
StructFinding(n, sev) ==
    [kind |-> "struct", name |-> n, description |-> n,
     severity |-> sev, exploitability |-> "High",
     category |-> "Access Control", mitigation |-> "llm mitigation"]

\* The base findings mergeSecurityAnalyses may be handed: none (what
\* generateSecurityAnalysis produces), plain strings, or structured records.
BaseFindings ==
    { <<>>,
      <<StringFinding("v2"), StringFinding("v1")>>,
      <<StructFinding("v1", "High")>> }

BaseSummary ==
    [name |-> "base", description |-> "base", category |-> "base",
     complexityScore |-> 50, overview |-> "base",
     keyFeatures |-> <<"b2", "b1">>, web3Fundamentals |-> "base",
     economicModel |-> "base", riskAssessment |-> Undefined]

BaseArchitecture ==
    [coreContracts |-> "base", dependencies |-> "base", dataFlow |-> "base",
     interactionDiagram |-> "base", inheritanceDiagram |-> "base",
     designPatterns |-> <<"b1">>,
     gasOptimization |-> [efficiency |-> 50, optimizations |-> <<"b1">>,
                          concerns |-> <<>>]]

BaseSecurity(findings) ==
    [rating |-> "base", businessLogic |-> "base",
     strengths |-> <<"b2", "b1">>, vulnerabilities |-> findings,
     recommendations |-> <<"b1", "b2">>, auditStatus |-> "base",
     documentationCodeMismatches |-> ArrayOf(<<>>)]

BaseReport(findings) ==
    [summary |-> BaseSummary, architecture |-> BaseArchitecture,
     security |-> BaseSecurity(findings), timestamp |-> TBase]

BaseReports == {BaseReport(f) : f \in BaseFindings}

-----------------------------------------------------------------------------
(* Enhancement inputs *)

ScalarVals == {Undefined, EmptyStr, "llm"}
PresentOrNot == {Undefined, "llm"}

\* what an enhancement can carry in a list field
ListVals(entries) ==
    {UndefinedList, NonIterable}
        \cup {ArrayOf(s) : s \in BoundedSeq(entries, MaxEnhLen)}

WideEntries == {"b1", "e1", "e2"}
NarrowEntries == {"b1", "e1"}

LlmFindings ==
    {UndefinedList, ArrayOf(<<>>),
     ArrayOf(<<StructFinding("x2", "Critical"), StructFinding("x1", "Low")>>)}

\* undefined / null in place of a section
SummaryMissing ==
    [present |-> FALSE, description |-> Undefined, overview |-> Undefined,
     keyFeatures |-> UndefinedList, web3Fundamentals |-> Undefined,
     economicModel |-> Undefined, riskAssessment |-> Undefined]

GasMissing ==
    [present |-> FALSE, optimizations |-> UndefinedList,
     concerns |-> UndefinedList]

ArchitectureMissing ==
    [present |-> FALSE, dataFlow |-> Undefined,
     interactionDiagram |-> Undefined, inheritanceDiagram |-> Undefined,
     designPatterns |-> UndefinedList, gasOptimization |-> GasMissing]

SecurityMissing ==
    [present |-> FALSE, rating |-> Undefined, businessLogic |-> Undefined,
     strengths |-> UndefinedList, vulnerabilities |-> UndefinedList,
     recommendations |-> UndefinedList, auditStatus |-> Undefined,
     documentationCodeMismatches |-> UndefinedList]

\* The narrative fields after overview are supplied together or not at all.
SummaryRich ==
    {[present |-> TRUE, description |-> d, overview |-> o, keyFeatures |-> k,
      web3Fundamentals |-> w, economicModel |-> w, riskAssessment |-> w] :
        d \in PresentOrNot, o \in ScalarVals, k \in ListVals(WideEntries),
        w \in PresentOrNot}

GasVals ==
    {GasMissing}
        \cup {[present |-> TRUE, optimizations |-> g, concerns |-> g] :
                g \in {UndefinedList, NonIterable, ArrayOf(<<"e1">>)}}

ArchitectureRich ==
    {[present |-> TRUE, dataFlow |-> f, interactionDiagram |-> d,
      inheritanceDiagram |-> d, designPatterns |-> p, gasOptimization |-> g] :
        f \in ScalarVals, d \in PresentOrNot, p \in ListVals(NarrowEntries),
        g \in GasVals}

SecurityRich ==
    {[present |-> TRUE, rating |-> r, businessLogic |-> t, strengths |-> s,
      vulnerabilities |-> v, recommendations |-> c, auditStatus |-> t,
      documentationCodeMismatches |-> v] :
        r \in PresentOrNot, t \in PresentOrNot, s \in ListVals(WideEntries),
        v \in LlmFindings, c \in ListVals(NarrowEntries)}

\* Representative sections used while another section is varied in full:
\* a missing section, a well-formed one with values, one whose merge throws.
SummaryCoarse ==
    {SummaryMissing,
     [SummaryMissing EXCEPT !.present = TRUE],
     [SummaryMissing EXCEPT !.present = TRUE, !.description = "llm",
        !.overview = "llm", !.keyFeatures = ArrayOf(<<"e1">>)],
     [SummaryMissing EXCEPT !.present = TRUE, !.overview = "llm",
        !.keyFeatures = NonIterable]}

ArchitectureCoarse ==
    {ArchitectureMissing,
     [ArchitectureMissing EXCEPT !.present = TRUE, !.dataFlow = "llm",
        !.designPatterns = ArrayOf(<<"e1">>)],
     [ArchitectureMissing EXCEPT !.present = TRUE, !.dataFlow = "llm",
        !.designPatterns = NonIterable]}

SecurityCoarse ==
    {SecurityMissing,
     [SecurityMissing EXCEPT !.present = TRUE, !.rating = "llm",
        !.strengths = ArrayOf(<<"e1">>),
        !.vulnerabilities =
            ArrayOf(<<StructFinding("x1", "Low")>>)],
     [SecurityMissing EXCEPT !.present = TRUE, !.rating = "llm",
        !.vulnerabilities = ArrayOf(<<StructFinding("x1", "Low")>>),
        !.recommendations = NonIterable]}

LlmReport(s, a, c) ==
    [present |-> TRUE, summary |-> s, architecture |-> a, security |-> c,
     timestamp |-> TLlm]

\* null in place of the whole enhancement
LlmNull ==
    [present |-> FALSE, summary |-> SummaryMissing,
     architecture |-> ArchitectureMissing, security |-> SecurityMissing,
     timestamp |-> Undefined]

\* The enhancement inputs: one section ranges over all its values while the
\* other two range over their representatives.
LlmReports ==
    {LlmNull}
        \cup {LlmReport(s, a, c) :
                s \in SummaryRich, a \in ArchitectureCoarse,
                c \in SecurityCoarse}
        \cup {LlmReport(s, a, c) :
                s \in SummaryCoarse, a \in ArchitectureRich,
                c \in SecurityCoarse}
        \cup {LlmReport(s, a, c) :
                s \in SummaryCoarse, a \in ArchitectureCoarse,
                c \in SecurityRich}

-----------------------------------------------------------------------------
(* AnalysisEngine.mergeSecurityAnalyses *)

\* A plausible slip: the default severity of a coerced finding is High.
CoerceFindingHigh(v) ==
    [kind |-> "struct", name |-> v.name, description |-> v.name,
     severity |-> "High", exploitability |-> "Medium",
     category |-> "General",
     mitigation |-> "Review and address this vulnerability"]

\* vuln => ({name: vuln, description: vuln, severity: 'Medium', ...})
CoerceFinding(v) ==
    [kind |-> "struct", name |-> v.name, description |-> v.name,
     severity |-> "Medium", exploitability |-> "Medium",
     category |-> "General",
     mitigation |-> "Review and address this vulnerability"]

\* baseVulnerabilities: the whole list is mapped when its first element is a
\* string, and kept as it is otherwise.
baseVulnerabilities(baseSecurity) ==
    LET vs == baseSecurity.vulnerabilities
    IN  IF Len(vs) > 0 /\ vs[1].kind = "string"
        THEN [i \in 1..Len(vs) |-> CoerceFinding(vs[i])]
        ELSE vs

\* The try block of mergeSecurityAnalyses.  Reading a property of an
\* undefined llmSecurity throws, and so does spreading a non-iterable value.
mergeSecurityTry(baseSecurity, llmSecurity) ==
    LET st == SpreadOrEmpty(llmSecurity.strengths)
        rc == SpreadOrEmpty(llmSecurity.recommendations)
        lv == llmSecurity.vulnerabilities
        dm == llmSecurity.documentationCodeMismatches
    IN  IF ~llmSecurity.present \/ st.threw \/ rc.threw
        THEN [threw |-> TRUE, value |-> baseSecurity]
        ELSE [threw |-> FALSE,
              value |->
                [rating |-> OrElse(llmSecurity.rating, baseSecurity.rating),
                 businessLogic |-> OrElse(llmSecurity.businessLogic,
                                          baseSecurity.businessLogic),
                 strengths |-> UnionLists(baseSecurity.strengths, st.items),
                 vulnerabilities |->
                    IF lv.kind = "array" /\ Len(lv.items) > 0
                    THEN lv.items
                    ELSE baseVulnerabilities(baseSecurity),
                 recommendations |->
                    UnionLists(baseSecurity.recommendations, rc.items),
                 auditStatus |-> OrElse(llmSecurity.auditStatus,
                                        baseSecurity.auditStatus),
                 documentationCodeMismatches |->
                    IF dm.kind = "undefined" THEN ArrayOf(<<>>) ELSE dm]]

\* try { ... } catch { return baseSecurity }
mergeSecurityAnalyses(baseSecurity, llmSecurity) ==
    LET t == mergeSecurityTry(baseSecurity, llmSecurity)
    IN  IF t.threw THEN baseSecurity ELSE t.value

\* TRUE when the catch block of mergeSecurityAnalyses ran
SecurityCaught(baseSecurity, llmSecurity) ==
    mergeSecurityTry(baseSecurity, llmSecurity).threw

-----------------------------------------------------------------------------
(* AnalysisEngine.mergeAnalyses *)

\* the summary: { ... } part of the returned object literal
mergeSummaryTry(baseSummary, llmSummary) ==
    LET kf == SpreadOrEmpty(llmSummary.keyFeatures)
    IN  IF ~llmSummary.present \/ kf.threw
        THEN [threw |-> TRUE, value |-> baseSummary]
        ELSE [threw |-> FALSE,
              value |->
                [baseSummary EXCEPT
                    !.overview = OrElse(llmSummary.overview, @),
                    !.keyFeatures = UnionLists(@, kf.items),
                    !.web3Fundamentals =
                        OrElse(llmSummary.web3Fundamentals, @),
                    !.economicModel = OrElse(llmSummary.economicModel, @),
                    !.riskAssessment = OrElse(llmSummary.riskAssessment, @)]]

\* A plausible slip: designPatterns is the concatenation of the two lists,
\* without the Set.
mergeArchitectureConcat(baseArch, llmArch) ==
    LET dp == SpreadOrEmpty(llmArch.designPatterns)
        go == llmArch.gasOptimization
        op == IF go.present THEN SpreadOrEmpty(go.optimizations)
              ELSE [threw |-> FALSE, items |-> <<>>]
        cn == IF go.present THEN SpreadOrEmpty(go.concerns)
              ELSE [threw |-> FALSE, items |-> <<>>]
    IN  IF ~llmArch.present \/ dp.threw \/ op.threw \/ cn.threw
        THEN [threw |-> TRUE, value |-> baseArch]
        ELSE [threw |-> FALSE,
              value |->
                [baseArch EXCEPT
                    !.designPatterns = @ \o dp.items,
                    !.dataFlow = OrElse(llmArch.dataFlow, @),
                    !.interactionDiagram =
                        OrElse(llmArch.interactionDiagram, @),
                    !.inheritanceDiagram =
                        OrElse(llmArch.inheritanceDiagram, @),
                    !.gasOptimization.optimizations =
                        UnionLists(@, op.items),
                    !.gasOptimization.concerns = UnionLists(@, cn.items)]]

\* the architecture: { ... } part; gasOptimization is read through ?. and a
\* missing gasOptimization contributes nothing.
mergeArchitectureTry(baseArch, llmArch) ==
    LET dp == SpreadOrEmpty(llmArch.designPatterns)
        go == llmArch.gasOptimization
        op == IF go.present THEN SpreadOrEmpty(go.optimizations)
              ELSE [threw |-> FALSE, items |-> <<>>]
        cn == IF go.present THEN SpreadOrEmpty(go.concerns)
              ELSE [threw |-> FALSE, items |-> <<>>]
    IN  IF ~llmArch.present \/ dp.threw \/ op.threw \/ cn.threw
        THEN [threw |-> TRUE, value |-> baseArch]
        ELSE [threw |-> FALSE,
              value |->
                [baseArch EXCEPT
                    !.designPatterns = UnionLists(@, dp.items),
                    !.dataFlow = OrElse(llmArch.dataFlow, @),
                    !.interactionDiagram =
                        OrElse(llmArch.interactionDiagram, @),
                    !.inheritanceDiagram =
                        OrElse(llmArch.inheritanceDiagram, @),
                    !.gasOptimization.optimizations =
                        UnionLists(@, op.items),
                    !.gasOptimization.concerns = UnionLists(@, cn.items)]]

\* The try block of mergeAnalyses: the object literal is evaluated summary
\* first, then architecture, then security; the first exception abandons it.
\* A null llmResult throws on the first property read.
mergeAnalysesTry(baseResult, llmResult) ==
    LET sm == mergeSummaryTry(baseResult.summary, llmResult.summary)
        ar == mergeArchitectureTry(baseResult.architecture,
                                   llmResult.architecture)
    IN  IF ~llmResult.present \/ sm.threw \/ ar.threw
        THEN [threw |-> TRUE, value |-> baseResult]
        ELSE [threw |-> FALSE,
              value |->
                [summary |-> sm.value, architecture |-> ar.value,
                 security |-> mergeSecurityAnalyses(baseResult.security,
                                                    llmResult.security),
                 timestamp |-> TMerge]]

\* TRUE when the catch block of mergeAnalyses ran
MergeCaught(baseResult, llmResult) ==
    mergeAnalysesTry(baseResult, llmResult).threw

\* A plausible slip: the try/catch of mergeAnalyses is missing, so that an
\* exception of the object literal reaches the caller.
mergeAnalysesNoCatch(baseResult, llmResult) ==
    mergeAnalysesTry(baseResult, llmResult)

\* try { return {...} } catch { return baseResult }
mergeAnalyses(baseResult, llmResult) ==
    LET t == mergeAnalysesTry(baseResult, llmResult)
    IN  IF t.threw THEN [threw |-> FALSE, value |-> baseResult] ELSE t

-----------------------------------------------------------------------------
(* Source files (DocumentProcessor.GitHubFile)                              *)
(*                                                                          *)
(* The analyzer never tokenizes a file: each step scans the text with one   *)
(* regular expression.  A text is therefore represented by the matches it   *)
(* offers to each expression, in text order: the "contract <Name>"          *)
(* declarations with their "is" clause, the "function <name>" declarations, *)
(* the modifier, event and import declarations, and the numbers of if,      *)
(* while/for and low-level call occurrences.  isString = FALSE stands for a *)
(* content that is not a string, on which content.match throws.             *)

ContractDecl(n, ps) == [name |-> n, parents |-> ps]

\* A function declaration: its name, the words written between the
\* parameter list and the body (or the "returns" clause), in text order,
\* and whether it has a body.
FunctionDeclared(n, specs, body) ==
    [name |-> n, specifiers |-> specs, hasBody |-> body]

\* a declaration in the usual order: visibility, then mutability
FunctionDecl(n, vis, mut, body) ==
    FunctionDeclared(n,
        (IF vis = Undefined THEN <<>> ELSE <<vis>>)
            \o (IF mut = Undefined THEN <<>> ELSE <<mut>>),
        body)

Text(cs, fs, ms, es, is, nIf, nLoop, nCall) ==
    [isString |-> TRUE, contracts |-> cs, functions |-> fs, modifiers |-> ms,
     events |-> es, imports |-> is, ifs |-> nIf, loops |-> nLoop,
     calls |-> nCall]

NotAString ==
    [isString |-> FALSE, contracts |-> <<>>, functions |-> <<>>,
     modifiers |-> <<>>, events |-> <<>>, imports |-> <<>>, ifs |-> 0,
     loops |-> 0, calls |-> 0]

GitHubFile(n, t, c) == [name |-> n, type |-> t, content |-> c]

-----------------------------------------------------------------------------
(* DocumentProcessor: the contract analyzer *)

NullAnalysis ==
    [isNull |-> TRUE, fileName |-> 0, contractName |-> Undefined,
     functions |-> <<>>, events |-> <<>>, modifiers |-> <<>>,
     imports |-> <<>>, inheritance |-> <<>>, complexity |-> 0]

Min(a, b) == IF a <= b THEN a ELSE b

Visibilities == {"public", "private", "internal", "external"}

Mutabilities == {"pure", "view", "payable"}

\* \)\s*(public|private|internal|external)? : the optional group takes the
\* word that directly follows the parameter list when it is a visibility
Group2(specs) ==
    IF Len(specs) > 0 /\ specs[1] \in Visibilities
    THEN specs[1] ELSE Undefined

\* \s*(pure|view|payable)? : the optional group takes the next word when
\* it is a mutability; whatever follows is consumed by (.*?)
Group3(specs) ==
    LET rest == IF Group2(specs) = Undefined THEN specs ELSE Tail(specs)
    IN  IF Len(rest) > 0 /\ rest[1] \in Mutabilities
        THEN rest[1] ELSE Undefined

\* A plausible slip: the visibility defaults to 'external'.
extractFunctionsDefaultExternal(content) ==
    LET withBody == SelectSeq(content.functions, LAMBDA d : d.hasBody)
    IN  [i \in 1..Len(withBody) |->
            [name |-> withBody[i].name,
             visibility |-> OrElse(Group2(withBody[i].specifiers),
                                   "external"),
             stateMutability |-> OrElse(Group3(withBody[i].specifiers),
                                        "nonpayable"),
             parameters |-> <<>>, returns |-> <<>>, modifiers |-> <<>>]]

\* functionRegex matches a declaration that has a body; match[2] and
\* match[3] default to 'internal' and 'nonpayable'.
extractFunctions(content) ==
    LET withBody == SelectSeq(content.functions, LAMBDA d : d.hasBody)
    IN  [i \in 1..Len(withBody) |->
            [name |-> withBody[i].name,
             visibility |-> OrElse(Group2(withBody[i].specifiers),
                                   "internal"),
             stateMutability |-> OrElse(Group3(withBody[i].specifiers),
                                        "nonpayable"),
             parameters |-> <<>>, returns |-> <<>>, modifiers |-> <<>>]]

extractEvents(content) ==
    [i \in 1..Len(content.events) |->
        [name |-> content.events[i], parameters |-> <<>>]]

extractModifiers(content) ==
    [i \in 1..Len(content.modifiers) |->
        [name |-> content.modifiers[i], parameters |-> <<>>]]

extractImports(content) == content.imports

\* /contract\s+\w+\s+is\s+([^{]+)/ : the parents of the first declaration
\* that has an "is" clause
extractInheritance(content) ==
    LET withIs == SelectSeq(content.contracts, LAMBDA c : c.parents # <<>>)
    IN  IF withIs = <<>> THEN <<>> ELSE withIs[1].parents

\* A plausible slip: the result is not capped at 10.
calculateComplexityNoCap(content) ==
    2 * Len(content.functions) + (content.ifs + content.loops)
        + 3 * content.calls

\* Math.min(complexity / 10, 10), in tenths.  functionCount counts every
\* "function <name>", conditionalCount every if, while and for.
calculateComplexity(content) ==
    LET functionCount == Len(content.functions)
        conditionalCount == content.ifs + content.loops
        externalCallCount == content.calls
    IN  Min(functionCount * 2 + conditionalCount + externalCallCount * 3,
            100)

\* The try block of parseSolidityContract.
parseSolidityContractTry(file) ==
    LET content == file.content
    IN  IF ~content.isString
        THEN [threw |-> TRUE, value |-> NullAnalysis]
        ELSE IF content.contracts = <<>>
        THEN [threw |-> FALSE, value |-> NullAnalysis]
        ELSE [threw |-> FALSE,
              value |->
                [isNull |-> FALSE, fileName |-> file.name,
                 contractName |-> content.contracts[1].name,
                 functions |-> extractFunctions(content),
                 events |-> extractEvents(content),
                 modifiers |-> extractModifiers(content),
                 imports |-> extractImports(content),
                 inheritance |-> extractInheritance(content),
                 complexity |-> calculateComplexity(content)]]

\* A plausible slip: the try/catch of parseSolidityContract is missing.
parseSolidityContractNoCatch(file) == parseSolidityContractTry(file)

\* try { ... } catch { return null }
parseSolidityContract(file) ==
    LET t == parseSolidityContractTry(file)
    IN  IF t.threw THEN [threw |-> FALSE, value |-> NullAnalysis] ELSE t

\* files.filter(file => file.type === 'solidity')
solidityFiles(fs) == SelectSeq(fs, LAMBDA f : f.type = "solidity")

\* A plausible slip: the result is pushed without the "if (analysis)" test.
analyzeOnePushAlways(acc, file) ==
    Append(acc, parseSolidityContract(file).value)

\* One iteration of the for loop of analyzeSolidityContracts: the analysis
\* is pushed when it is not null; a null result and an exception (caught by
\* the try/catch of the loop body) leave the array as it is.
analyzeOne(acc, file) ==
    LET r == parseSolidityContract(file)
    IN  IF ~r.threw /\ ~r.value.isNull THEN Append(acc, r.value) ELSE acc

-----------------------------------------------------------------------------
(* Inputs of the contract analyzer *)

PlainFunctions(n) ==
    [i \in 1..n |-> FunctionDecl("f", Undefined, Undefined, TRUE)]

\* function counts: the small ones and one large enough to reach the cap
FunctionCounts == (0..MaxFunctions) \cup {50}

ContractLists ==
    { <<>>,
      <<ContractDecl("Vault", <<"Ownable">>)>>,
      <<ContractDecl("Token", <<>>), ContractDecl("Vault", <<"Ownable">>)>> }

\* what a declaration writes after its parameter list: nothing, the usual
\* order, the mutability before the visibility, a modifier first
SpecifierLists ==
    { <<>>, <<"public">>, <<"payable">>, <<"external", "view">>,
      <<"view", "external">>, <<"onlyOwner", "public">>,
      <<"public", "onlyOwner", "view">> }

DeclaredFunctionLists ==
    {<<FunctionDeclared("g", sp, b)>> : sp \in SpecifierLists, b \in BOOLEAN}
        \cup {<<FunctionDeclared("g", sp1, TRUE),
                FunctionDeclared("h", sp2, TRUE)>> :
                    sp1 \in SpecifierLists, sp2 \in SpecifierLists}

ParseContents ==
    {NotAString}
        \cup {Text(cs, PlainFunctions(f), ms, <<>>, <<>>, nIf, nLoop, nCall) :
                cs \in ContractLists, f \in FunctionCounts,
                ms \in {<<>>, <<"onlyOwner">>}, nIf \in 0..MaxIfs,
                nLoop \in 0..1, nCall \in 0..1}
        \cup {Text(<<ContractDecl("Vault", <<"Ownable">>)>>, fs, <<>>, <<>>,
                   <<>>, 0, 0, 0) : fs \in DeclaredFunctionLists}

\* file kinds of a repository listing: Solidity files that declare a contract,
\* one that declares none, one whose content is not a string, and a markdown
\* file whose text contains a contract declaration
VaultText ==
    Text(<<ContractDecl("Vault", <<"Ownable">>)>>, PlainFunctions(1),
         <<"onlyOwner">>, <<>>, <<>>, 1, 0, 0)

TokenText ==
    Text(<<ContractDecl("Token", <<>>)>>, PlainFunctions(2), <<>>, <<>>,
         <<>>, 0, 1, 0)

LibraryText == Text(<<>>, PlainFunctions(1), <<>>, <<>>, <<>>, 0, 0, 0)

FileKinds ==
    { <<"solidity", VaultText>>, <<"solidity", TokenText>>,
      <<"solidity", LibraryText>>, <<"solidity", NotAString>>,
      <<"markdown", VaultText>>, <<"other", LibraryText>> }

\* the listings of up to MaxFiles files; a file is named by its position
FileLists ==
    UNION {{[i \in 1..n |-> GitHubFile(i, ks[i][1], ks[i][2])] :
                ks \in [1..n -> FileKinds]} : n \in 0..MaxFiles}

-----------------------------------------------------------------------------
(* LLMAdapter.analyzeProtocol and the enhancement phase of analyzeProtocol  *)

SubCalls == {"summary", "architecture", "security"}

\* A promise returned by generateLLMSummary / generateLLMArchitecture /
\* generateLLMSecurityAnalysis: "pending"; "null" when callLLMAPI threw (HTTP
\* or network error, invalid response structure) or returned null (content
\* that is not JSON), and also when the JSON value is falsy; "value" with the
\* parsed JSON; "rejected" when the call threw before its own try block.
Pending(v) == [state |-> "pending", value |-> v]
Settled(st, v) == [state |-> st, value |-> v]

NoSubCalls ==
    [summary |-> Settled("idle", SummaryMissing),
     architecture |-> Settled("idle", ArchitectureMissing),
     security |-> Settled("idle", SecurityMissing)]

\* [ this.generateLLMSummary(context), ... ] : all three are started
StartedSubCalls ==
    [summary |-> Pending(SummaryMissing),
     architecture |-> Pending(ArchitectureMissing),
     security |-> Pending(SecurityMissing)]

\* what a sub-call can settle with
SubOutcomes(k) ==
    {Settled("null", NoSubCalls[k].value),
     Settled("rejected", NoSubCalls[k].value)}
        \cup {Settled("value", v) :
                v \in (CASE k = "summary" -> SummaryCoarse \ {SummaryMissing}
                         [] k = "architecture" ->
                                ArchitectureCoarse \ {ArchitectureMissing}
                         [] OTHER -> SecurityCoarse \ {SecurityMissing})}

\* a section of the base report read as a section of an enhancement
AsLlmSummary(b) ==
    [present |-> TRUE, description |-> b.description,
     overview |-> b.overview, keyFeatures |-> ArrayOf(b.keyFeatures),
     web3Fundamentals |-> b.web3Fundamentals,
     economicModel |-> b.economicModel,
     riskAssessment |-> b.riskAssessment]

AsLlmArchitecture(b) ==
    [present |-> TRUE, dataFlow |-> b.dataFlow,
     interactionDiagram |-> b.interactionDiagram,
     inheritanceDiagram |-> b.inheritanceDiagram,
     designPatterns |-> ArrayOf(b.designPatterns),
     gasOptimization |->
        [present |-> TRUE,
         optimizations |-> ArrayOf(b.gasOptimization.optimizations),
         concerns |-> ArrayOf(b.gasOptimization.concerns)]]

AsLlmSecurity(b) ==
    [present |-> TRUE, rating |-> b.rating,
     businessLogic |-> b.businessLogic, strengths |-> ArrayOf(b.strengths),
     vulnerabilities |-> ArrayOf(b.vulnerabilities),
     recommendations |-> ArrayOf(b.recommendations),
     auditStatus |-> b.auditStatus,
     documentationCodeMismatches |-> b.documentationCodeMismatches]

AsLlmReport(b) ==
    [present |-> TRUE, summary |-> AsLlmSummary(b.summary),
     architecture |-> AsLlmArchitecture(b.architecture),
     security |-> AsLlmSecurity(b.security), timestamp |-> b.timestamp]

\* A plausible slip: Promise.race instead of Promise.all, settled by the
\* first promise that settles.
AllSettledFirst(sc) ==
    \E k \in SubCalls : sc[k].state \in {"null", "value", "rejected"}

\* Promise.all has settled: rejected as soon as one promise is rejected,
\* fulfilled when all three are fulfilled
AllSettled(sc) ==
    \/ \E k \in SubCalls : sc[k].state = "rejected"
    \/ \A k \in SubCalls : sc[k].state \in {"null", "value"}

\* LLMAdapter.analyzeProtocol after Promise.all: each section is the
\* sub-call's value or, when that is null, the base section; a rejection is
\* caught and context.baseResult returned.
adapterResult(baseResult, sc) ==
    IF \E k \in SubCalls : sc[k].state = "rejected"
    THEN AsLlmReport(baseResult)
    ELSE [present |-> TRUE,
          summary |-> IF sc.summary.state = "value" THEN sc.summary.value
                      ELSE AsLlmSummary(baseResult.summary),
          architecture |->
              IF sc.architecture.state = "value" THEN sc.architecture.value
              ELSE AsLlmArchitecture(baseResult.architecture),
          security |-> IF sc.security.state = "value" THEN sc.security.value
                       ELSE AsLlmSecurity(baseResult.security),
          timestamp |-> TLlm]

\* Step 4 of analyzeProtocol once the adapter has returned llmResult:
\* mergeAnalyses inside try/catch; on an exception baseResult is returned.
enhancedResult(baseResult, llmResult) ==
    LET m == mergeAnalyses(baseResult, llmResult)
    IN  IF m.threw THEN baseResult ELSE m.value

-----------------------------------------------------------------------------
(* Errors: a message is represented by the marker substrings it contains    *)

NoReport == [kind |-> "none", report |-> BaseReport(<<>>), markers |-> {}]
Report(r) == [kind |-> "report", report |-> r, markers |-> {}]
Failure(ms) == [kind |-> "error", report |-> BaseReport(<<>>), markers |-> ms]

\* messages processGitHubRepository rejects with
RepoErrors ==
    { {"rate limit"}, {"Repository not found"},
      {"GitHub API error", "Invalid GitHub URL"} }

\* message parseDocumentationContent rejects with
DocsErrors == { {"Failed to parse documentation content"} }

\* AnalysisEngine.handleAnalysisError: the markers of the message it builds
handleAnalysisError(ms) ==
    IF "rate limit" \in ms THEN {"rate limit"}
    ELSE IF "CORS" \in ms THEN {"CORS"}
    ELSE IF "Invalid GitHub URL" \in ms THEN {}
    ELSE IF "Failed to fetch documentation" \in ms
    THEN {"Failed to fetch documentation"}
    ELSE ms \cup {"Analysis failed"}

TimeoutError == {"Analysis timeout"}

\* A plausible slip: the timeout message is not recognised by the handler.
errorMessageNoTimeout(ms) ==
    IF "rate limit" \in ms THEN "rate limit"
    ELSE IF "Repository not found" \in ms THEN "repository not found"
    ELSE IF "Invalid GitHub URL" \in ms THEN "invalid url"
    ELSE IF "CORS" \in ms THEN "cors"
    ELSE IF "Documentation processing error" \in ms THEN "documentation"
    ELSE "analysis failed"

\* the catch block of processAnalysis: the message shown for an error
errorMessage(ms) ==
    IF "Analysis timeout" \in ms THEN "timeout"
    ELSE IF "rate limit" \in ms THEN "rate limit"
    ELSE IF "Repository not found" \in ms THEN "repository not found"
    ELSE IF "Invalid GitHub URL" \in ms THEN "invalid url"
    ELSE IF "CORS" \in ms THEN "cors"
    ELSE IF "Documentation processing error" \in ms THEN "documentation"
    ELSE "analysis failed"

UploadState(st, msg, pr) == [status |-> st, message |-> msg, progress |-> pr]

-----------------------------------------------------------------------------
(* JavaScript numbers                                                       *)
(*                                                                          *)
(* The complexity average is computed in IEEE-754 double precision, where   *)
(* the sum of tenths depends on the order of the additions.  A double is    *)
(* modelled exactly: value = m * 2^e with m a natural number of exactly 53  *)
(* bits (or zero), kept as a little-endian sequence of base-2^15 digits, so *)
(* that every intermediate product fits the integers of the checker.  Only  *)
(* the operations the engine applies to complexity scores are defined, for  *)
(* non-negative values in the normal range: + , / and * by a small integer, *)
(* > against an integer, and Math.round.                                    *)

Limb == 32768

BigZero == <<>>

RECURSIVE BigTrim(_)
BigTrim(a) ==
    IF a = <<>> THEN a
    ELSE IF a[Len(a)] = 0 THEN BigTrim(SubSeq(a, 1, Len(a) - 1)) ELSE a

RECURSIVE BigFromInt(_)
BigFromInt(n) ==
    IF n = 0 THEN <<>> ELSE <<n % Limb>> \o BigFromInt(n \div Limb)

RECURSIVE BigToInt(_)
BigToInt(a) == IF a = <<>> THEN 0 ELSE a[1] + Limb * BigToInt(Tail(a))

RECURSIVE BigAddCarry(_, _, _)
BigAddCarry(a, b, carry) ==
    IF a = <<>> /\ b = <<>>
    THEN (IF carry = 0 THEN <<>> ELSE <<carry>>)
    ELSE LET x == IF a = <<>> THEN 0 ELSE a[1]
             y == IF b = <<>> THEN 0 ELSE b[1]
             s == x + y + carry
         IN  <<s % Limb>>
                \o BigAddCarry(IF a = <<>> THEN a ELSE Tail(a),
                               IF b = <<>> THEN b ELSE Tail(b),
                               s \div Limb)

BigAdd(a, b) == BigAddCarry(a, b, 0)

\* a * k for 0 <= k < 2^15
RECURSIVE BigMulCarry(_, _, _)
BigMulCarry(a, k, carry) ==
    IF a = <<>> THEN BigFromInt(carry)
    ELSE LET p == a[1] * k + carry
         IN  <<p % Limb>> \o BigMulCarry(Tail(a), k, p \div Limb)

BigMulSmall(a, k) == BigTrim(BigMulCarry(a, k, 0))

\* quotient and remainder of a / d for 0 < d < 2^15, most significant digit
\* first
RECURSIVE BigDivRem(_, _, _)
BigDivRem(a, d, rem) ==
    IF a = <<>> THEN [q |-> <<>>, r |-> rem]
    ELSE LET cur == rem * Limb + a[Len(a)]
             rest == BigDivRem(SubSeq(a, 1, Len(a) - 1), d, cur % d)
         IN  [q |-> Append(rest.q, cur \div d), r |-> rest.r]

BigDivSmall(a, d) ==
    LET x == BigDivRem(a, d, 0) IN [q |-> BigTrim(x.q), r |-> x.r]

\* a < b
RECURSIVE BigLess(_, _)
BigLess(a, b) ==
    IF Len(a) # Len(b) THEN Len(a) < Len(b)
    ELSE IF a = <<>> THEN FALSE
    ELSE IF a[Len(a)] # b[Len(b)] THEN a[Len(a)] < b[Len(b)]
    ELSE BigLess(SubSeq(a, 1, Len(a) - 1), SubSeq(b, 1, Len(b) - 1))

RECURSIVE BitLength(_)
BitLength(n) == IF n = 0 THEN 0 ELSE 1 + BitLength(n \div 2)

BigBits(a) ==
    IF a = <<>> THEN 0 ELSE 15 * (Len(a) - 1) + BitLength(a[Len(a)])

\* a * 2^k
BigShiftLeft(a, k) ==
    IF a = <<>> THEN a
    ELSE [i \in 1..(k \div 15) |-> 0] \o BigMulSmall(a, 2 ^ (k % 15))

\* floor(a / 2^k)
BigShiftRight(a, k) ==
    IF k \div 15 >= Len(a) THEN <<>>
    ELSE BigDivSmall(SubSeq(a, k \div 15 + 1, Len(a)), 2 ^ (k % 15)).q

BigOdd(a) == a # <<>> /\ a[1] % 2 = 1

\* a / 2^k rounded to the nearest integer, ties to even
BigRoundShift(a, k) ==
    IF k = 0 THEN a
    ELSE LET q == BigShiftRight(a, k)
             half == BigOdd(BigShiftRight(a, k - 1))
             sticky == BigShiftLeft(BigShiftRight(a, k - 1), k - 1) # a
         IN  IF half /\ (sticky \/ BigOdd(q)) THEN BigAdd(q, <<1>>) ELSE q

Double(m, e) == [m |-> m, e |-> e]

\* the double nearest to a * 2^e
RoundToDouble(a, e) ==
    LET bits == BigBits(a)
    IN  IF bits = 0 THEN Double(<<>>, 0)
        ELSE IF bits <= 53 THEN Double(BigShiftLeft(a, 53 - bits),
                                       e - (53 - bits))
        ELSE LET r == BigRoundShift(a, bits - 53)
             IN  IF BigBits(r) = 54
                 THEN Double(BigShiftRight(r, 1), e + (bits - 53) + 1)
                 ELSE Double(r, e + (bits - 53))

DoubleOfInt(n) == RoundToDouble(BigFromInt(n), 0)

\* x + y
DoubleAdd(x, y) ==
    IF x.m = <<>> THEN y
    ELSE IF y.m = <<>> THEN x
    ELSE LET e == IF x.e <= y.e THEN x.e ELSE y.e
         IN  RoundToDouble(BigAdd(BigShiftLeft(x.m, x.e - e),
                                  BigShiftLeft(y.m, y.e - e)), e)

\* x * k for an integer 0 < k < 2^15
DoubleTimes(x, k) == RoundToDouble(BigMulSmall(x.m, k), x.e)

\* x / d for an integer 0 < d < 2^15: twenty more quotient bits and one
\* sticky bit for the remainder, then one rounding
DoubleOver(x, d) ==
    LET qr == BigDivSmall(BigShiftLeft(x.m, 20), d)
    IN  RoundToDouble(BigAdd(BigShiftLeft(qr.q, 1),
                             IF qr.r = 0 THEN <<>> ELSE <<1>>),
                      x.e - 21)

\* x > k for an integer k >= 0 (x.e <= 0 for every x below 2^53)
DoubleExceeds(x, k) == BigLess(BigShiftLeft(BigFromInt(k), 0 - x.e), x.m)

\* Math.round(x) = floor(x + 0.5)
MathRound(x) ==
    IF x.m = <<>> THEN 0
    ELSE BigToInt(BigShiftRight(
            BigAdd(x.m, BigShiftLeft(<<1>>, (0 - x.e) - 1)), 0 - x.e))

\* a complexity score: an integer number of tenths t stands for the double
\* t / 10, which is what Math.min(complexity / 10, 10) and
\* Math.round(x * 10) / 10 produce
TenthsToDouble(t) == DoubleOver(DoubleOfInt(t), 10)

-----------------------------------------------------------------------------
(* AnalysisEngine: generation of the base report                            *)
(* A text that is only searched with includes() is represented by the set   *)
(* of the searched substrings it contains: an import path, a dependency, a  *)
(* lower-cased contract name, the lower-cased documentation text.           *)

\* ContractAnalysis records as analyzeSolidityContracts delivers them
ContractFacts(n, imps, evs, fns, inh, cx) ==
    [isNull |-> FALSE, fileName |-> 0, contractName |-> n,
     functions |-> fns, events |-> evs, modifiers |-> <<>>,
     imports |-> imps, inheritance |-> inh, complexity |-> cx]

FunctionInfo(n, vis) ==
    [name |-> n, visibility |-> vis, stateMutability |-> "nonpayable",
     parameters |-> <<>>, returns |-> <<>>, modifiers |-> <<>>]

\* contractName.toLowerCase().includes(kw)
LowerNameIncludes(n, kw) ==
    \/ n = "Timelock" /\ kw \in {"timelock", "time", "lock"}
    \/ n = "Vault" /\ kw = "vault"
    \/ n = "Token" /\ kw = "token"
    \/ n = "Pool" /\ kw = "pool"
    \/ n = "Factory" /\ kw = "factory"
    \/ n = "Manager" /\ kw = "manager"

\* contracts.some(c => f(c))
Some(s, f(_)) == \E i \in 1..Len(s) : f(s[i])

\* c.imports.some(imp => imp.includes(kw))
ImportsInclude(c, kw) == \E i \in 1..Len(c.imports) : kw \in c.imports[i]

\* the exact sum of the scores, in tenths
RECURSIVE SumComplexity(_)
SumComplexity(contracts) ==
    IF contracts = <<>> THEN 0
    ELSE contracts[1].complexity + SumComplexity(Tail(contracts))

\* contracts.reduce((sum, c) => sum + c.complexity, 0): the additions are
\* made from the left, in list order
RECURSIVE TotalComplexity(_)
TotalComplexity(contracts) ==
    IF contracts = <<>> THEN DoubleOfInt(0)
    ELSE DoubleAdd(TotalComplexity(SubSeq(contracts, 1, Len(contracts) - 1)),
                   TenthsToDouble(contracts[Len(contracts)].complexity))

\* neutral average returned for an empty contract list: 5, in tenths
DefaultAverage == 50

\* Math.round(x * 10) / 10, in tenths
RoundTenths(x) == MathRound(DoubleTimes(x, 10))

\* A plausible slip: the total is rounded without dividing by the length.
calculateAverageComplexityNoDivide(contracts) ==
    IF Len(contracts) = 0 THEN [nan |-> FALSE, value |-> DefaultAverage]
    ELSE [nan |-> FALSE, value |-> RoundTenths(TotalComplexity(contracts))]

\* AnalysisEngine.calculateAverageComplexity, in tenths
calculateAverageComplexity(contracts) ==
    IF Len(contracts) = 0 THEN [nan |-> FALSE, value |-> DefaultAverage]
    ELSE [nan |-> FALSE,
          value |-> RoundTenths(DoubleOver(TotalComplexity(contracts),
                                           Len(contracts)))]

\* The documentation text plus the repository description, lower-cased
CategoryContent(repoData, docsData) ==
    docsData.content \cup repoData.description

\* A plausible slip: the defi/swap/liquidity group is tested first.
determineProtocolCategorySwapFirst(repoData, docsData) ==
    LET content == CategoryContent(repoData, docsData)
        has(k) == k \in content
    IN  IF has("defi") \/ has("swap") \/ has("liquidity")
        THEN "DeFi Protocol"
        ELSE IF has("lending") \/ has("borrow") THEN "Lending Protocol"
        ELSE IF has("derivative") \/ has("perpetual") \/ has("futures")
        THEN "Derivatives Trading"
        ELSE IF has("yield") \/ has("farm") \/ has("stake")
        THEN "Yield Farming"
        ELSE IF has("governance") \/ has("voting") \/ has("dao")
        THEN "Governance Protocol"
        ELSE IF has("bridge") \/ has("cross-chain")
        THEN "Cross-Chain Bridge"
        ELSE IF has("nft") \/ has("erc721") \/ has("erc1155")
        THEN "NFT Protocol"
        ELSE IF has("token") /\ has("manage") THEN "Token Management"
        ELSE IF has("risk") \/ has("insurance") THEN "Risk Management"
        ELSE "Other"

\* AnalysisEngine.determineProtocolCategory
determineProtocolCategory(repoData, docsData) ==
    LET content == CategoryContent(repoData, docsData)
        has(k) == k \in content
    IN  IF has("lending") \/ has("borrow") THEN "Lending Protocol"
        ELSE IF has("derivative") \/ has("perpetual") \/ has("futures")
        THEN "Derivatives Trading"
        ELSE IF has("yield") \/ has("farm") \/ has("stake")
        THEN "Yield Farming"
        ELSE IF has("governance") \/ has("voting") \/ has("dao")
        THEN "Governance Protocol"
        ELSE IF has("bridge") \/ has("cross-chain")
        THEN "Cross-Chain Bridge"
        ELSE IF has("nft") \/ has("erc721") \/ has("erc1155")
        THEN "NFT Protocol"
        ELSE IF has("token") /\ has("manage") THEN "Token Management"
        ELSE IF has("risk") \/ has("insurance") THEN "Risk Management"
        ELSE IF has("defi") \/ has("swap") \/ has("liquidity")
        THEN "DeFi Protocol"
        ELSE "Other"

\* the average of calculateSecurityRating: reduce(...) / contracts.length,
\* which is 0 / 0 = NaN for an empty list.
RatingAverage(contracts) ==
    IF Len(contracts) = 0 THEN [nan |-> TRUE, value |-> DoubleOfInt(0)]
    ELSE [nan |-> FALSE,
          value |-> DoubleOver(TotalComplexity(contracts), Len(contracts))]

\* avgComplexity > limit (limit a whole number); false for NaN
AverageExceeds(avg, limit) == ~avg.nan /\ DoubleExceeds(avg.value, limit)

BaseScore == 70

\* contracts.some(c => c.imports.some(imp => imp.includes('AccessControl')
\* || imp.includes('Ownable')))
hasAccessControl(contracts) ==
    Some(contracts, LAMBDA c : ImportsInclude(c, "AccessControl")
                                \/ ImportsInclude(c, "Ownable"))

\* A plausible slip: the second bonus is given for event usage.
hasReentrancyGuardByEvents(contracts) ==
    Some(contracts, LAMBDA c : Len(c.events) > 0)

\* contracts.some(c => c.imports.some(imp =>
\* imp.includes('ReentrancyGuard')))
hasReentrancyGuard(contracts) ==
    Some(contracts, LAMBDA c : ImportsInclude(c, "ReentrancyGuard"))

\* A plausible slip: the detector looks for a function named pause.
hasPausableByFunction(contracts) ==
    Some(contracts, LAMBDA c : \E i \in 1..Len(c.functions) :
                                    c.functions[i].name = "pause")

\* contracts.some(c => c.imports.some(imp => imp.includes('Pausable')))
hasPausable(contracts) ==
    Some(contracts, LAMBDA c : ImportsInclude(c, "Pausable"))

\* A plausible slip: the penalty above 8 is smaller than the one above 6.
securityScoreSmallPenalty(contracts) ==
    LET avgComplexity == RatingAverage(contracts)
    IN  BaseScore
            + (IF hasAccessControl(contracts) THEN 10 ELSE 0)
            + (IF hasReentrancyGuard(contracts) THEN 10 ELSE 0)
            + (IF hasPausable(contracts) THEN 5 ELSE 0)
            - (IF AverageExceeds(avgComplexity, 8) THEN 5
               ELSE IF AverageExceeds(avgComplexity, 6) THEN 10 ELSE 0)

\* the numeric score of calculateSecurityRating before it is graded
securityScore(contracts) ==
    LET avgComplexity == RatingAverage(contracts)
    IN  BaseScore
            + (IF hasAccessControl(contracts) THEN 10 ELSE 0)
            + (IF hasReentrancyGuard(contracts) THEN 10 ELSE 0)
            + (IF hasPausable(contracts) THEN 5 ELSE 0)
            - (IF AverageExceeds(avgComplexity, 8) THEN 15
               ELSE IF AverageExceeds(avgComplexity, 6) THEN 10 ELSE 0)

\* the score-to-grade table of calculateSecurityRating
gradeOf(score) ==
    IF score >= 95 THEN "A+" ELSE IF score >= 90 THEN "A"
    ELSE IF score >= 85 THEN "A-" ELSE IF score >= 80 THEN "B+"
    ELSE IF score >= 75 THEN "B" ELSE IF score >= 70 THEN "B-"
    ELSE IF score >= 65 THEN "C+" ELSE IF score >= 60 THEN "C"
    ELSE IF score >= 55 THEN "C-" ELSE IF score >= 50 THEN "D"
    ELSE "F"

\* AnalysisEngine.calculateSecurityRating
calculateSecurityRating(contracts) == gradeOf(securityScore(contracts))

\* the strengths substituted when no detector matches
DefaultStrengths == <<"Basic security measures implemented">>

PauseStrength == "Emergency pause mechanisms for crisis management"

\* the strengths pushed by the detectors, in the order of the code
DetectedStrengths(repoData) ==
    LET cs == repoData.contractAnalysis
        when(b, text) == IF b THEN <<text>> ELSE <<>>
    IN  when(hasAccessControl(cs),
             "Comprehensive access control implementation")
        \o when(hasReentrancyGuard(cs), "Reentrancy protection implemented")
        \o when(hasPausable(cs), PauseStrength)
        \o when(Some(cs, LAMBDA c : LowerNameIncludes(c.contractName,
                                                      "timelock")),
                "Timelock delays for critical administrative functions")
        \o when(Some(cs, LAMBDA c : LowerNameIncludes(c.contractName,
                                                      "multisig")),
                "Multi-signature wallet integration")
        \o when(\E i \in 1..Len(repoData.dependencies) :
                    "openzeppelin" \in repoData.dependencies[i],
                "Utilizes battle-tested OpenZeppelin security libraries")
        \o when(Some(cs, LAMBDA c : Len(c.events) > 0),
                "Comprehensive event logging")

\* A plausible slip: the detected list is returned even when it is empty.
extractSecurityStrengthsNoDefault(repoData) == DetectedStrengths(repoData)

\* AnalysisEngine.extractSecurityStrengths
extractSecurityStrengths(repoData) ==
    IF Len(DetectedStrengths(repoData)) > 0 THEN DetectedStrengths(repoData)
    ELSE DefaultStrengths

\* AnalysisEngine.generateSecurityRecommendations
generateSecurityRecommendations(repoData, docsData) ==
    LET cs == repoData.contractAnalysis
        when(b, texts) == IF b THEN texts ELSE <<>>
        avgComplexity == calculateAverageComplexity(cs).value
    IN  when(~hasReentrancyGuard(cs),
             <<"Implement reentrancy guards on all state-changing functions">>)
        \o when(~hasPausable(cs),
                <<"Add emergency pause functionality for crisis management">>)
        \o when(~Some(cs, LAMBDA c : LowerNameIncludes(c.contractName,
                                                       "timelock")),
                <<"Implement timelock delays for administrative functions">>)
        \o when(avgComplexity > 70,
                <<"Consider breaking down complex contracts into smaller, more manageable modules",
                  "Conduct thorough testing of complex business logic paths">>)
        \o when("oracle" \in docsData.content,
                <<"Implement oracle price validation and circuit breakers",
                  "Consider using multiple oracle sources for price feed redundancy">>)
        \o <<"Conduct comprehensive security audit before mainnet deployment",
              "Implement comprehensive monitoring and alerting systems">>

\* AnalysisEngine.detectDesignPatterns
detectDesignPatterns(repoData) ==
    LET cs == repoData.contractAnalysis
        when(b, text) == IF b THEN <<text>> ELSE <<>>
        patterns ==
            when(Some(cs, LAMBDA c : LowerNameIncludes(c.contractName,
                                                       "factory")),
                 "Factory Pattern")
            \o when(Some(cs, LAMBDA c :
                            \/ LowerNameIncludes(c.contractName, "proxy")
                            \/ ImportsInclude(c, "proxy")),
                    "Proxy Pattern")
            \o when(hasAccessControl(cs), "Access Control Pattern")
            \o when(hasReentrancyGuard(cs), "Reentrancy Guard Pattern")
            \o when(hasPausable(cs), "Circuit Breaker Pattern")
            \o when(Some(cs, LAMBDA c : LowerNameIncludes(c.contractName,
                                                          "timelock")),
                    "Timelock Pattern")
    IN  IF Len(patterns) > 0 THEN patterns
        ELSE <<"Standard Contract Pattern">>

-----------------------------------------------------------------------------
(* AnalysisEngine: the three Mermaid diagrams.  A diagram is the sequence   *)
(* of its lines and a line the sequence of its words; a contract node is    *)
(* written with the contract's name.                                        *)

\* AnalysisEngine.formatContractInfos
formatContractInfos(contractAnalysis) ==
    [i \in 1..Len(contractAnalysis) |->
        [name |-> contractAnalysis[i].contractName,
         functions |-> Len(contractAnalysis[i].functions),
         complexity |-> contractAnalysis[i].complexity]]

RECURSIVE Flatten(_)
Flatten(ss) == IF ss = <<>> THEN <<>> ELSE ss[1] \o Flatten(Tail(ss))

DataFlowTemplate ==
    << <<"User Interface", "Protocol Entry Point">>,
       <<"Protocol Entry Point", "Business Logic">>,
       <<"Business Logic", "State Management">>,
       <<"State Management", "Asset Storage">> >>

\* `C${index}`, the index counted from 0
NodeId(i) == "C" \o ToString(i - 1)

\* A plausible slip: the sub-chain is written from five functions on.
ContractNodeLinesFromFive(contracts, i) ==
    << <<"Entry Point", NodeId(i), contracts[i].name>> >>
    \o (IF contracts[i].functions >= 5
        THEN << <<NodeId(i), NodeId(i) \o "_Logic", "Business Logic">>,
                <<NodeId(i) \o "_Logic", NodeId(i) \o "_State",
                  "State Updates">> >>
        ELSE <<>>)

\* the lines the forEach of generateDataFlow writes for the contract at
\* position i: the edge from the entry point to a new node labelled with
\* the contract's name and, for more than five functions, the chain to its
\* business-logic and state-update nodes
ContractNodeLines(contracts, i) ==
    << <<"Entry Point", NodeId(i), contracts[i].name>> >>
    \o (IF contracts[i].functions > 5
        THEN << <<NodeId(i), NodeId(i) \o "_Logic", "Business Logic">>,
                <<NodeId(i) \o "_Logic", NodeId(i) \o "_State",
                  "State Updates">> >>
        ELSE <<>>)

\* A plausible slip: the empty list is not tested and the dynamic chart is
\* built around a node C0 that does not exist.
generateDataFlowNoTemplate(contracts) ==
    << <<"User", "Entry Point">>, <<"C0", "External Calls">>,
       <<"External Calls", "Event Emission">> >>

\* AnalysisEngine.generateDataFlow
generateDataFlow(contracts) ==
    IF Len(contracts) = 0 THEN DataFlowTemplate
    ELSE << <<"User", "Entry Point">> >>
         \o Flatten([i \in 1..Len(contracts) |->
                        ContractNodeLines(contracts, i)])
         \o << <<"C0", "External Calls">>,
               <<"External Calls", "Event Emission">> >>

InteractionTemplate ==
    << <<"participant", "User">>, <<"participant", "Contract">>,
       <<"participant", "Storage">>,
       <<"User", "Contract", "Function Call">>,
       <<"Contract", "Storage", "Read State">>,
       <<"Storage", "Contract", "Current State">>,
       <<"Contract", "Storage", "Update State">>,
       <<"Contract", "User", "Return Result">> >>

\* AnalysisEngine.generateInteractionDiagram
generateInteractionDiagram(contracts) ==
    IF Len(contracts) = 0 THEN InteractionTemplate
    ELSE LET shown == SubSeq(contracts, 1, Min(3, Len(contracts)))
             c0 == contracts[1].name
         IN  << <<"participant", "User">> >>
             \o [i \in 1..Len(shown) |-> <<"participant", shown[i].name>>]
             \o << <<"participant", "Storage">>,
                   <<"User", c0, "Initialize Transaction">> >>
             \o (IF Len(contracts) > 1
                 THEN LET c1 == contracts[2].name
                      IN  << <<c0, c1, "Delegate Call">>,
                             <<c1, "Storage", "Read State">>,
                             <<"Storage", c1, "Current Data">>,
                             <<c1, "Storage", "Update State">>,
                             <<c1, c0, "Return Data">> >>
                 ELSE << <<c0, "Storage", "Read/Write State">>,
                         <<"Storage", c0, "State Data">> >>)
             \o << <<c0, "User", "Transaction Result">> >>

InheritanceTemplate ==
    << <<"class", "BaseContract">>, <<"+modifier", "onlyOwner">>,
       <<"+function", "pause">>, <<"+function", "unpause">>,
       <<"class", "MainContract">>, <<"+function", "execute">>,
       <<"+function", "validate">>,
       <<"BaseContract", "<|--", "MainContract">> >>

\* the lines generateInheritanceDiagram writes for one contract: the class
\* with its first five functions and first three modifiers, then one
\* relation per parent, preceded by an interface class when the parent is
\* not among the contracts
ClassLines(contracts, c) ==
    LET fs == SubSeq(c.functions, 1, Min(5, Len(c.functions)))
        ms == SubSeq(c.modifiers, 1, Min(3, Len(c.modifiers)))
        mark(v) == IF v = "public" THEN "+" ELSE IF v = "private" THEN "-"
                   ELSE IF v = "internal" THEN "#" ELSE "~"
    IN  << <<"class", c.contractName>> >>
        \o [i \in 1..Len(fs) |-> <<mark(fs[i].visibility), fs[i].name>>]
        \o [i \in 1..Len(ms) |-> <<"+modifier", ms[i].name>>]
        \o Flatten([i \in 1..Len(c.inheritance) |->
              (IF Some(contracts,
                       LAMBDA o : o.contractName = c.inheritance[i])
               THEN <<>>
               ELSE << <<"class", c.inheritance[i], "<<interface>>">> >>)
              \o << <<c.inheritance[i], "<|--", c.contractName>> >>])

\* func.name.toLowerCase().includes(contractName.toLowerCase())
FunctionNameIncludes(fn, cn) == fn = "depositToVault" /\ cn = "Vault"

\* the "uses" relations: contract.functions.some(func => ...) where the
\* test is that the function name contains the other contract's name, or
\* that the other contract is a factory or a manager
UsesLines(contracts) ==
    Flatten([i \in 1..Len(contracts) |->
        Flatten([j \in 1..Len(contracts) |->
            IF i # j
               /\ \E k \in 1..Len(contracts[i].functions) :
                    \/ FunctionNameIncludes(contracts[i].functions[k].name,
                                            contracts[j].contractName)
                    \/ LowerNameIncludes(contracts[j].contractName, "factory")
                    \/ LowerNameIncludes(contracts[j].contractName, "manager")
            THEN << <<contracts[i].contractName, "-->",
                      contracts[j].contractName>> >>
            ELSE <<>>])])

\* AnalysisEngine.generateInheritanceDiagram
generateInheritanceDiagram(contracts) ==
    IF Len(contracts) = 0 THEN InheritanceTemplate
    ELSE Flatten([i \in 1..Len(contracts) |->
                    ClassLines(contracts, contracts[i])])
         \o UsesLines(contracts)

\* the diagram part of generateArchitectureAnalysis
generateDiagrams(repoData) ==
    [dataFlow |->
        generateDataFlow(formatContractInfos(repoData.contractAnalysis)),
     interactionDiagram |->
        generateInteractionDiagram(
            formatContractInfos(repoData.contractAnalysis)),
     inheritanceDiagram |->
        generateInheritanceDiagram(repoData.contractAnalysis)]

-----------------------------------------------------------------------------
(* AnalysisEngine.generateBaseAnalysis *)

ProcessedRepository(cs, desc, deps) ==
    [contractAnalysis |-> cs, description |-> desc, dependencies |-> deps]

DocumentContent(c) == [content |-> c]

\* generateSummary: the fields that are computed from the facts; the texts
\* that are only assembled stay the tokens of BaseSummary
generateSummary(repoData, docsData) ==
    [BaseSummary EXCEPT
        !.category = determineProtocolCategory(repoData, docsData),
        !.complexityScore =
            calculateAverageComplexity(repoData.contractAnalysis).value]

\* generateSecurityAnalysis: vulnerabilities is the empty array literal
generateSecurityAnalysis(repoData, docsData) ==
    [BaseSecurity(<<>>) EXCEPT
        !.rating = calculateSecurityRating(repoData.contractAnalysis),
        !.strengths = extractSecurityStrengths(repoData),
        !.vulnerabilities = <<>>,
        !.recommendations =
            generateSecurityRecommendations(repoData, docsData),
        !.documentationCodeMismatches = ArrayOf(<<>>)]

generateBaseAnalysis(repoData, docsData) ==
    [summary |-> generateSummary(repoData, docsData),
     architecture |->
        [BaseArchitecture EXCEPT
            !.designPatterns = detectDesignPatterns(repoData)],
     security |-> generateSecurityAnalysis(repoData, docsData),
     timestamp |-> TBase]

\* analyzeSolidityContracts as a whole: the loop of analyzeOne over the
\* Solidity files
RECURSIVE analyzeAll(_, _)
analyzeAll(acc, fs) ==
    IF fs = <<>> THEN acc ELSE analyzeAll(analyzeOne(acc, fs[1]), Tail(fs))

analyzeSolidityContracts(fs) == analyzeAll(<<>>, solidityFiles(fs))

-----------------------------------------------------------------------------
(* Inputs of the base analysis *)

\* contract Vault is Ownable with six functions, one of them pause, and one
\* modifier; nothing is imported
PauseVaultText ==
    Text(<<ContractDecl("Vault", <<"Ownable">>)>>,
         PlainFunctions(5)
            \o <<FunctionDecl("pause", "external", Undefined, TRUE)>>,
         <<"onlyOwner">>, <<>>, <<>>, 0, 0, 0)

OwnedTokenText ==
    Text(<<ContractDecl("Token", <<>>)>>, <<>>, <<>>, <<>>,
         <<{"Ownable", "openzeppelin"}>>, 0, 0, 0)

\* complexity 6.1
GuardedPoolText ==
    Text(<<ContractDecl("Pool", <<>>)>>, <<>>, <<>>, <<"Deposit">>,
         <<{"ReentrancyGuard"}, {"Pausable"}>>, 1, 0, 20)

\* complexity 8.1
TimelockText ==
    Text(<<ContractDecl("Timelock", <<>>)>>, <<>>, <<>>, <<>>, <<>>, 0, 0,
         27)

\* complexity 6.0
PoolText ==
    Text(<<ContractDecl("Pool", <<>>)>>, <<>>, <<>>, <<>>, <<>>, 0, 0, 20)

\* complexity above the cap
HeavyText ==
    Text(<<ContractDecl("Pool", <<>>)>>, <<>>, <<>>, <<>>, <<>>, 0, 2, 40)

RepoTexts ==
    {PauseVaultText, OwnedTokenText, GuardedPoolText, TimelockText, PoolText,
     HeavyText, LibraryText}

RepoFileLists ==
    UNION {{[i \in 1..n |-> GitHubFile(i, "solidity", ts[i])] :
                ts \in [1..n -> RepoTexts]} : n \in 0..MaxContracts}

DocsContents ==
    { {}, {"swap"}, {"lending"}, {"swap", "lending"}, {"token"},
      {"token", "manage"}, {"governance", "nft"}, {"risk", "swap"},
      {"bridge"}, {"yield", "derivative"} }

Descriptions == { {}, {"borrow"} }

DependencyLists == { <<>>, <<{"openzeppelin"}>> }

\* what the three calls of the adapter settle with in a run of the base
\* analysis followed by the enhancement
SettledSubCalls ==
    { [summary |-> s, architecture |-> a, security |-> c] :
        s \in {Settled("null", SummaryMissing)}
                \cup {o \in SubOutcomes("summary") :
                        o.state = "value"
                        /\ o.value.keyFeatures = ArrayOf(<<"e1">>)},
        a \in {Settled("null", ArchitectureMissing)},
        c \in SubOutcomes("security") }

-----------------------------------------------------------------------------
(* Specifications *)

MergeIdle ==
    /\ mBase = BaseReport(<<>>)
    /\ mLlm = LlmNull
    /\ mOut = [threw |-> FALSE, value |-> BaseReport(<<>>)]
    /\ mPc = "idle"

ParseIdle ==
    /\ pFile = GitHubFile(0, "other", NotAString)
    /\ pOut = [threw |-> FALSE, value |-> NullAnalysis]
    /\ pPc = "idle"

FilesIdle ==
    /\ files = <<>>
    /\ fIdx = 0
    /\ analyses = <<>>
    /\ fPc = "idle"

RunIdle ==
    /\ llmEnabled = FALSE
    /\ ePc = "idle"
    /\ eBase = BaseReport(<<>>)
    /\ sub = NoSubCalls
    /\ eLlm = LlmNull
    /\ eResult = NoReport
    /\ timer = "unset"
    /\ uiPc = "idle"
    /\ uiState = UploadState("idle", "", 0)
    /\ appResult = NoReport
    /\ timeoutPhase = "none"

BaseIdle ==
    /\ bFiles = <<>>
    /\ bRepo = ProcessedRepository(<<>>, {}, <<>>)
    /\ bDocs = DocumentContent({})
    /\ bBase = BaseReport(<<>>)
    /\ bDiagrams = generateDiagrams(ProcessedRepository(<<>>, {}, <<>>))
    /\ bLlm = LlmNull
    /\ bOut = BaseReport(<<>>)
    /\ bPc = "idle"

OrderIdle ==
    /\ oFacts = <<>>
    /\ oDocs = DocumentContent({})
    /\ oBase = BaseReport(<<>>)
    /\ oDiagrams = generateDiagrams(ProcessedRepository(<<>>, {}, <<>>))
    /\ oOrder = <<>>
    /\ oReordered = BaseReport(<<>>)
    /\ oPc = "idle"

RunsIdle ==
    /\ rRuns = <<>>
    /\ rState = UploadState("idle", "", 0)
    /\ rResult = 0

TreeIdle ==
    /\ gReplies = <<>>
    /\ gOut = [threw |-> FALSE, markers |-> {}, files |-> <<>>]
    /\ gPc = "idle"

DocsIdle ==
    /\ dReplies = <<>>
    /\ dIdx = 0
    /\ dOut = [threw |-> FALSE, strategy |-> -1]
    /\ dPc = "idle"

RestIdle == OrderIdle /\ RunsIdle /\ TreeIdle /\ DocsIdle

(* The reconciler on its own: every base report and enhancement input *)

InitMerge ==
    /\ mBase \in BaseReports
    /\ mLlm \in LlmReports
    /\ mOut = [threw |-> FALSE, value |-> mBase]
    /\ mPc = "call"
    /\ ParseIdle /\ FilesIdle /\ RunIdle /\ BaseIdle /\ RestIdle

\* const mergedResult = this.mergeAnalyses(baseResult, llmResult)
MergeCall ==
    /\ mPc = "call"
    /\ mOut' = mergeAnalyses(mBase, mLlm)
    /\ mPc' = "done"
    /\ UNCHANGED <<mBase, mLlm, parseVars, filesVars, runVars, baseVars, restVars>>

NextMerge == MergeCall

SpecMerge == InitMerge /\ [][NextMerge]_vars

(* parseSolidityContract on its own: every file content *)

InitParse ==
    /\ pFile \in {GitHubFile(1, "solidity", c) : c \in ParseContents}
    /\ pOut = [threw |-> FALSE, value |-> NullAnalysis]
    /\ pPc = "call"
    /\ MergeIdle /\ FilesIdle /\ RunIdle /\ BaseIdle /\ RestIdle

\* const analysis = this.parseSolidityContract(file)
ParseCall ==
    /\ pPc = "call"
    /\ pOut' = parseSolidityContract(pFile)
    /\ pPc' = "done"
    /\ UNCHANGED <<pFile, mergeVars, filesVars, runVars, baseVars, restVars>>

NextParse == ParseCall

SpecParse == InitParse /\ [][NextParse]_vars

(* analyzeSolidityContracts: the loop over the Solidity files of a listing *)

InitFiles ==
    /\ files \in FileLists
    /\ fIdx = 0
    /\ analyses = <<>>
    /\ fPc = "loop"
    /\ MergeIdle /\ ParseIdle /\ RunIdle /\ BaseIdle /\ RestIdle

\* for (const file of solidityFiles) { try { ... } catch { } }
AnalyzeFile ==
    /\ fPc = "loop"
    /\ fIdx < Len(solidityFiles(files))
    /\ analyses' = analyzeOne(analyses, solidityFiles(files)[fIdx + 1])
    /\ fIdx' = fIdx + 1
    /\ UNCHANGED <<files, fPc, mergeVars, parseVars, runVars, baseVars, restVars>>

\* return analyses
AnalyzeReturn ==
    /\ fPc = "loop"
    /\ fIdx = Len(solidityFiles(files))
    /\ fPc' = "returned"
    /\ UNCHANGED <<files, fIdx, analyses, mergeVars, parseVars,
                   runVars, baseVars, restVars>>

NextFiles == AnalyzeFile \/ AnalyzeReturn

SpecFiles == InitFiles /\ [][NextFiles]_vars

(* One run of processAnalysis racing analyzeProtocol against the timeout *)

Init ==
    /\ MergeIdle /\ ParseIdle /\ FilesIdle /\ BaseIdle /\ RestIdle
    /\ llmEnabled \in BOOLEAN
    /\ ePc = "idle"
    /\ eBase = BaseReport(<<>>)
    /\ sub = NoSubCalls
    /\ eLlm = LlmNull
    /\ eResult = NoReport
    /\ timer = "unset"
    /\ uiPc = "idle"
    /\ uiState = UploadState("idle", "", 0)
    /\ appResult = NoReport
    /\ timeoutPhase = "none"

engineVars == <<ePc, sub, eLlm, eResult>>
uiVars == <<uiPc, uiState, appResult, timeoutPhase>>

\* handleSubmit -> processAnalysis up to its first await
Submit ==
    /\ uiPc = "idle"
    /\ uiState.status # "processing"
    /\ uiPc' = "wait1"
    /\ uiState' = UploadState("processing", "initializing", 10)
    /\ UNCHANGED <<baseVars, restVars, mergeVars, parseVars, filesVars, llmEnabled, eBase,
                   engineVars, timer, appResult, timeoutPhase>>

\* processAnalysis after the first and the second delay
Progress ==
    /\ uiPc \in {"wait1", "wait2"}
    /\ uiPc' = IF uiPc = "wait1" THEN "wait2" ELSE "wait3"
    /\ uiState' = IF uiPc = "wait1"
                  THEN UploadState("processing", "scraping", 30)
                  ELSE UploadState("processing", "documentation", 60)
    /\ UNCHANGED <<baseVars, restVars, mergeVars, parseVars, filesVars, llmEnabled, eBase,
                   engineVars, timer, appResult, timeoutPhase>>

\* processAnalysis after the third delay: the timeout is armed,
\* analyzeProtocol is called and runs up to its first await, and the
\* function suspends on Promise.race
StartRace ==
    /\ uiPc = "wait3"
    /\ uiPc' = "race"
    /\ uiState' = UploadState("processing", "generating", 90)
    /\ timer' = "armed"
    /\ ePc' = "repo"
    /\ UNCHANGED <<baseVars, restVars, mergeVars, parseVars, filesVars, llmEnabled, eBase, sub,
                   eLlm, eResult, appResult, timeoutPhase>>

\* the promise of analyzeProtocol is fulfilled: Promise.race, if still
\* pending, is fulfilled and processAnalysis moves to its last delay
Fulfil(r) ==
    /\ eResult' = Report(r)
    /\ uiPc' = IF uiPc = "race" THEN "wait4" ELSE uiPc
    /\ UNCHANGED <<uiState, appResult, timeoutPhase>>

\* the promise of analyzeProtocol is rejected with handleAnalysisError's
\* error: Promise.race, if still pending, is rejected and the catch block
\* of processAnalysis runs
Reject(ms) ==
    /\ eResult' = Failure(handleAnalysisError(ms))
    /\ IF uiPc = "race"
       THEN /\ uiPc' = "done"
            /\ uiState' = UploadState("error",
                              errorMessage(handleAnalysisError(ms)),
                              uiState.progress)
       ELSE UNCHANGED <<uiPc, uiState>>
    /\ UNCHANGED <<appResult, timeoutPhase>>

\* processGitHubRepository settles
RepoDone ==
    /\ ePc = "repo"
    /\ \/ /\ ePc' = "docs"
          /\ UNCHANGED <<eResult, uiVars>>
       \/ \E ms \in RepoErrors :
            /\ ePc' = "threw"
            /\ Reject(ms)
    /\ UNCHANGED <<baseVars, restVars, mergeVars, parseVars, filesVars, llmEnabled, eBase, sub,
                   eLlm, timer>>

\* processDocumentationUrl settles; when it is fulfilled the base report is
\* generated and either returned or handed to the adapter, which starts its
\* three calls
DocsDone ==
    /\ ePc = "docs"
    /\ \/ /\ llmEnabled
          /\ ePc' = "llm"
          /\ sub' = StartedSubCalls
          /\ UNCHANGED <<eResult, uiVars>>
       \/ /\ ~llmEnabled
          /\ ePc' = "returned"
          /\ Fulfil(eBase)
          /\ UNCHANGED sub
       \/ \E ms \in DocsErrors :
            /\ ePc' = "threw"
            /\ Reject(ms)
            /\ UNCHANGED sub
    /\ UNCHANGED <<baseVars, restVars, mergeVars, parseVars, filesVars, llmEnabled, eBase, eLlm,
                   timer>>

\* one of the adapter's three calls settles; when that settles Promise.all,
\* the adapter returns, the engine merges and analyzeProtocol returns
SubCallDone ==
    /\ \E k \in SubCalls : \E o \in SubOutcomes(k) :
        /\ sub[k].state = "pending"
        /\ sub' = [sub EXCEPT ![k] = o]
    /\ IF ePc = "llm" /\ AllSettled(sub')
       THEN /\ ePc' = "returned"
            /\ eLlm' = adapterResult(eBase, sub')
            /\ Fulfil(enhancedResult(eBase, eLlm'))
       ELSE UNCHANGED <<ePc, eLlm, eResult, uiVars>>
    /\ UNCHANGED <<baseVars, restVars, mergeVars, parseVars, filesVars, llmEnabled, eBase,
                   timer>>

\* the 5-minute timer fires: Promise.race, if still pending, is rejected
\* and the catch block of processAnalysis runs
Timeout ==
    /\ timer = "armed"
    /\ timer' = "fired"
    /\ IF uiPc = "race"
       THEN /\ uiPc' = "done"
            /\ uiState' = UploadState("error", errorMessage(TimeoutError),
                                      uiState.progress)
            /\ timeoutPhase' = ePc
       ELSE UNCHANGED <<uiPc, uiState, timeoutPhase>>
    /\ UNCHANGED <<baseVars, restVars, mergeVars, parseVars, filesVars, llmEnabled, eBase,
                   engineVars, appResult>>

\* processAnalysis after its last delay: onAnalysisComplete, then the state
\* becomes complete
Complete ==
    /\ uiPc = "wait4"
    /\ uiPc' = "done"
    /\ appResult' = eResult
    /\ uiState' = UploadState("complete", "complete", 100)
    /\ UNCHANGED <<baseVars, restVars, mergeVars, parseVars, filesVars, llmEnabled, eBase,
                   engineVars, timer, timeoutPhase>>

Next ==
    \/ Submit
    \/ Progress
    \/ StartRace
    \/ RepoDone
    \/ DocsDone
    \/ SubCallDone
    \/ Timeout
    \/ Complete

Spec == Init /\ [][Next]_vars

(* The base analysis of a repository, followed by the enhancement when it *)
(* is enabled: the data path of analyzeProtocol                           *)

InitBase ==
    /\ bFiles \in RepoFileLists
    /\ bRepo \in {ProcessedRepository(<<>>, d, ds) :
                    d \in Descriptions, ds \in DependencyLists}
    /\ bDocs \in {DocumentContent(c) : c \in DocsContents}
    /\ bBase = BaseReport(<<>>)
    /\ bDiagrams = generateDiagrams(ProcessedRepository(<<>>, {}, <<>>))
    /\ bLlm = LlmNull
    /\ bOut = BaseReport(<<>>)
    /\ bPc = "repo"
    /\ MergeIdle /\ ParseIdle /\ FilesIdle /\ RestIdle
    /\ llmEnabled \in BOOLEAN
    /\ ePc = "idle"
    /\ eBase = BaseReport(<<>>)
    /\ sub = NoSubCalls
    /\ eLlm = LlmNull
    /\ eResult = NoReport
    /\ timer = "unset"
    /\ uiPc = "idle"
    /\ uiState = UploadState("idle", "", 0)
    /\ appResult = NoReport
    /\ timeoutPhase = "none"

\* processGitHubRepository: contractAnalysis = analyzeSolidityContracts(files)
ProcessRepository ==
    /\ bPc = "repo"
    /\ bRepo' = [bRepo EXCEPT
                    !.contractAnalysis = analyzeSolidityContracts(bFiles)]
    /\ bPc' = "facts"
    /\ UNCHANGED <<bFiles, bDocs, bBase, bDiagrams, bLlm, bOut, mergeVars,
                   parseVars, filesVars, runVars, restVars>>

\* const baseResult = this.generateBaseAnalysis(repoData, docsData)
GenerateBase ==
    /\ bPc = "facts"
    /\ bBase' = generateBaseAnalysis(bRepo, bDocs)
    /\ bDiagrams' = generateDiagrams(bRepo)
    /\ bPc' = "base"
    /\ UNCHANGED <<bFiles, bRepo, bDocs, bLlm, bOut, mergeVars, parseVars,
                   filesVars, runVars, restVars>>

\* return baseResult, the enhancement being disabled
ReturnBase ==
    /\ bPc = "base"
    /\ ~llmEnabled
    /\ bOut' = bBase
    /\ bPc' = "returned"
    /\ UNCHANGED <<bFiles, bRepo, bDocs, bBase, bDiagrams, bLlm, mergeVars,
                   parseVars, filesVars, runVars, restVars>>

\* the enhancement is enabled: the adapter returns and the result of
\* mergeAnalyses (or, on an exception, baseResult) is returned
ReturnEnhanced ==
    /\ bPc = "base"
    /\ llmEnabled
    /\ \E sc \in SettledSubCalls : bLlm' = adapterResult(bBase, sc)
    /\ bOut' = enhancedResult(bBase, bLlm')
    /\ bPc' = "returned"
    /\ UNCHANGED <<bFiles, bRepo, bDocs, bBase, bDiagrams, mergeVars,
                   parseVars, filesVars, runVars, restVars>>

NextBase ==
    \/ ProcessRepository
    \/ GenerateBase
    \/ ReturnBase
    \/ ReturnEnhanced

SpecBase == InitBase /\ [][NextBase]_vars

(* generateBaseAnalysis on its own: every fact list, in two orders *)

\* six functions, one of them pause; complexity 4.3
VaultFacts ==
    ContractFacts("Vault", <<{"Ownable"}>>, <<>>,
                  [i \in 1..5 |-> FunctionInfo("f", "internal")]
                      \o <<FunctionInfo("pause", "external")>>,
                  <<"Ownable">>, 43)

\* exactly five functions, one of them named after the vault, and an event;
\* complexity 9.8
PoolFacts ==
    ContractFacts("Pool", <<{"ReentrancyGuard"}, {"Pausable"}>>,
                  <<[name |-> "Deposit", parameters |-> <<>>]>>,
                  [i \in 1..4 |-> FunctionInfo("f", "public")]
                      \o <<FunctionInfo("depositToVault", "public")>>,
                  <<>>, 98)

\* no function at all; complexity 9.9
TimelockFacts == ContractFacts("Timelock", <<>>, <<>>, <<>>, <<>>, 99)

\* one function and an event; complexity 0.3
FactoryFacts ==
    ContractFacts("Factory", <<>>,
                  <<[name |-> "Created", parameters |-> <<>>]>>,
                  <<FunctionInfo("f", "private")>>, <<>>, 3)

FactSet == {VaultFacts, PoolFacts, TimelockFacts, FactoryFacts}

FactLists == UNION {[1..n -> FactSet] : n \in 0..MaxFacts}

FactDocs == {DocumentContent({}), DocumentContent({"oracle", "lending"})}

\* the orderings of a list
Orderings(s) ==
    {[i \in 1..Len(s) |-> s[p[i]]] :
        p \in {q \in [1..Len(s) -> 1..Len(s)] :
                    \A i, j \in 1..Len(s) : i # j => q[i] # q[j]}}

InitGenerate ==
    /\ oFacts \in FactLists
    /\ oDocs \in FactDocs
    /\ oBase = BaseReport(<<>>)
    /\ oDiagrams = generateDiagrams(ProcessedRepository(<<>>, {}, <<>>))
    /\ oOrder = <<>>
    /\ oReordered = BaseReport(<<>>)
    /\ oPc = "facts"
    /\ MergeIdle /\ ParseIdle /\ FilesIdle /\ RunIdle /\ BaseIdle
    /\ RunsIdle /\ TreeIdle /\ DocsIdle

\* const baseResult = this.generateBaseAnalysis(repoData, docsData)
GenerateOnFacts ==
    /\ oPc = "facts"
    /\ oBase' = generateBaseAnalysis(ProcessedRepository(oFacts, {}, <<>>),
                                     oDocs)
    /\ oDiagrams' = generateDiagrams(ProcessedRepository(oFacts, {}, <<>>))
    /\ oPc' = "base"
    /\ UNCHANGED <<oFacts, oDocs, oOrder, oReordered, mergeVars, parseVars,
                   filesVars, runVars, baseVars, runsVars, treeVars,
                   docsVars>>

\* the same call on the same facts in another order
GenerateReordered ==
    /\ oPc = "base"
    /\ \E s \in Orderings(oFacts) :
        /\ oOrder' = s
        /\ oReordered' =
              generateBaseAnalysis(ProcessedRepository(s, {}, <<>>), oDocs)
    /\ oPc' = "reordered"
    /\ UNCHANGED <<oFacts, oDocs, oBase, oDiagrams, mergeVars, parseVars,
                   filesVars, runVars, baseVars, runsVars, treeVars,
                   docsVars>>

NextGenerate == GenerateOnFacts \/ GenerateReordered

SpecGenerate == InitGenerate /\ [][NextGenerate]_vars

(* The Analyze button clicked again and again: each click is a call of    *)
(* processAnalysis with its own analyzeProtocol promise, its own timer    *)
(* and its own Promise.race; uploadState and App.analysisResult are       *)
(* shared by all of them                                                  *)

\* a call of processAnalysis: the await it is suspended at, the promise of
\* analyzeProtocol, the 5-minute timer and how Promise.race settled
Run(pc, engine, tm, race) ==
    [pc |-> pc, engine |-> engine, timer |-> tm, race |-> race]

\* the disabled attribute of the button, the two URLs being valid
CanSubmit(st) == st.status # "processing"

\* A plausible slip: a result that is already stored is kept.
handleAnalysisCompleteKeepFirst(stored, result) ==
    IF stored = 0 THEN result ELSE stored

\* App.handleAnalysisComplete: setAnalysisResult(result)
handleAnalysisComplete(stored, result) == result

\* A plausible slip: the result is awaited again after the timeout.
RacePendingAfterTimeout(run) == run.race \in {"pending", "timeout"}

\* Promise.race([analysisPromise, timeoutPromise]) has not settled
RacePending(run) == run.race = "pending"

InitRuns ==
    /\ rRuns = <<>>
    /\ rState = UploadState("idle", "", 0)
    /\ rResult = 0
    /\ MergeIdle /\ ParseIdle /\ FilesIdle /\ RunIdle /\ BaseIdle
    /\ OrderIdle /\ TreeIdle /\ DocsIdle

otherThanRuns == <<mergeVars, parseVars, filesVars, runVars, baseVars,
                   orderVars, treeVars, docsVars>>

\* onClick -> handleSubmit -> processAnalysis up to its first await
SubmitRun ==
    /\ CanSubmit(rState)
    /\ Len(rRuns) < MaxRuns
    /\ rRuns' = Append(rRuns, Run("wait1", "unstarted", "unset", "none"))
    /\ rState' = UploadState("processing", "initializing", 10)
    /\ UNCHANGED <<rResult, otherThanRuns>>

\* processAnalysis after the first and the second delay
ProgressRun(r) ==
    /\ rRuns[r].pc \in {"wait1", "wait2"}
    /\ rRuns' = [rRuns EXCEPT ![r].pc = IF @ = "wait1" THEN "wait2"
                                                       ELSE "wait3"]
    /\ rState' = IF rRuns[r].pc = "wait1"
                 THEN UploadState("processing", "scraping", 30)
                 ELSE UploadState("processing", "documentation", 60)
    /\ UNCHANGED <<rResult, otherThanRuns>>

\* processAnalysis after the third delay: the timer is armed,
\* analyzeProtocol is called and the function suspends on Promise.race
StartRaceRun(r) ==
    /\ rRuns[r].pc = "wait3"
    /\ rRuns' = [rRuns EXCEPT ![r] = Run("race", "pending", "armed",
                                         "pending")]
    /\ rState' = UploadState("processing", "generating", 90)
    /\ UNCHANGED <<rResult, otherThanRuns>>

\* the promise of analyzeProtocol is fulfilled: Promise.race, if still
\* pending, is fulfilled and processAnalysis moves to its last delay
EngineFulfilled(r) ==
    /\ rRuns[r].engine = "pending"
    /\ rRuns' = [rRuns EXCEPT ![r] =
                    IF RacePending(@)
                    THEN Run("wait4", "fulfilled", @.timer, "fulfilled")
                    ELSE Run(@.pc, "fulfilled", @.timer, @.race)]
    /\ UNCHANGED <<rState, rResult, otherThanRuns>>

\* the promise of analyzeProtocol is rejected: Promise.race, if still
\* pending, is rejected and the catch block of processAnalysis runs
EngineRejected(r) ==
    /\ rRuns[r].engine = "pending"
    /\ \E ms \in RepoErrors \cup DocsErrors :
        IF RacePending(rRuns[r])
        THEN /\ rRuns' = [rRuns EXCEPT ![r] =
                            Run("done", "rejected", @.timer, "rejected")]
             /\ rState' = UploadState("error",
                              errorMessage(handleAnalysisError(ms)),
                              rState.progress)
        ELSE /\ rRuns' = [rRuns EXCEPT ![r].engine = "rejected"]
             /\ UNCHANGED rState
    /\ UNCHANGED <<rResult, otherThanRuns>>

\* the 5-minute timer of a run fires: Promise.race, if still pending, is
\* rejected and the catch block of processAnalysis runs
TimeoutRun(r) ==
    /\ rRuns[r].timer = "armed"
    /\ IF RacePending(rRuns[r])
       THEN /\ rRuns' = [rRuns EXCEPT ![r] =
                            Run("done", @.engine, "fired", "timeout")]
            /\ rState' = UploadState("error", errorMessage(TimeoutError),
                                     rState.progress)
       ELSE /\ rRuns' = [rRuns EXCEPT ![r].timer = "fired"]
            /\ UNCHANGED rState
    /\ UNCHANGED <<rResult, otherThanRuns>>

\* processAnalysis after its last delay: onAnalysisComplete(analysisResult)
HandOverRun(r) ==
    /\ rRuns[r].pc = "wait4"
    /\ rRuns' = [rRuns EXCEPT ![r].pc = "handed"]
    /\ rResult' = handleAnalysisComplete(rResult, r)
    /\ UNCHANGED <<rState, otherThanRuns>>

\* ... followed by updateState(completeState)
CompleteRun(r) ==
    /\ rRuns[r].pc = "handed"
    /\ rRuns' = [rRuns EXCEPT ![r].pc = "done"]
    /\ rState' = UploadState("complete", "complete", 100)
    /\ UNCHANGED <<rResult, otherThanRuns>>

NextRuns ==
    \/ SubmitRun
    \/ \E r \in 1..Len(rRuns) :
        \/ ProgressRun(r)
        \/ StartRaceRun(r)
        \/ EngineFulfilled(r)
        \/ EngineRejected(r)
        \/ TimeoutRun(r)
        \/ HandOverRun(r)
        \/ CompleteRun(r)

SpecRuns == InitRuns /\ [][NextRuns]_vars

(* processGitHubRepository against the GitHub API.  The repository is a   *)
(* chain of directories, the root at depth 0; the directory at depth d    *)
(* holds one file and, below MaxDepth, the directory at depth d + 1.      *)
(* Each request is answered with data or fails with an error message,     *)
(* which is represented by the marker substrings it contains.             *)

Depths == 0..MaxDepth

\* answers of octokit: data, or a RequestError with its message
ApiReplies == {"ok", "rate limit", "Not Found"}

\* the answers to repos.get and, per depth, to getContent on the directory
\* and on its file
ApiAnswers ==
    [info : ApiReplies, list : [Depths -> ApiReplies],
     file : [Depths -> ApiReplies]]

Resolved(fs) == [threw |-> FALSE, markers |-> {}, files |-> fs]
Rejected(ms) == [threw |-> TRUE, markers |-> ms, files |-> <<>>]

\* getFileContent on the file at depth d: its content, '' when the request
\* fails, except that a rate-limit error is rethrown
getFileContent(answers, d) ==
    IF answers.file[d] = "ok" THEN Resolved(<<d>>)
    ELSE IF answers.file[d] = "rate limit" THEN Rejected({"rate limit"})
    ELSE Resolved(<<>>)

\* the catch blocks around getFileContent and around the recursive call:
\* the error is logged and the loop goes on
InnerCatch(r) == IF r.threw THEN Resolved(<<>>) ELSE r

RECURSIVE getRepositoryFiles(_, _)
\* getRepositoryFiles on the directory at depth d: the files fetched, files
\* that were fetched with '' as content left aside
getRepositoryFiles(answers, d) ==
    IF answers.list[d] = "rate limit" THEN Rejected({"rate limit"})
    ELSE IF answers.list[d] # "ok" THEN Rejected({answers.list[d]})
    ELSE LET file == InnerCatch(getFileContent(answers, d))
             dir == IF d < MaxDepth
                    THEN InnerCatch(getRepositoryFiles(answers, d + 1))
                    ELSE Resolved(<<>>)
         IN  IF file.threw THEN file
             ELSE IF dir.threw THEN dir
             ELSE Resolved(file.files \o dir.files)

\* the catch block of processGitHubRepository
RepositoryError(ms) ==
    IF "rate limit" \in ms THEN {"rate limit"}
    ELSE IF "Not Found" \in ms THEN {"Repository not found"}
    ELSE IF "Bad credentials" \in ms THEN {"Invalid GitHub token"}
    ELSE ms \cup {"GitHub API error"}

\* processGitHubRepository: repos.get, then getRepositoryFiles on the root;
\* the steps after it make no request
processGitHubRepository(answers) ==
    IF answers.info # "ok" THEN Rejected(RepositoryError({answers.info}))
    ELSE LET r == getRepositoryFiles(answers, 0)
         IN  IF r.threw THEN Rejected(RepositoryError(r.markers)) ELSE r

\* the directory at depth d is listed: the directories above it were
\* listed successfully
Listed(answers, d) ==
    /\ answers.info = "ok"
    /\ \A k \in 0..(d - 1) : answers.list[k] = "ok"

\* the content of the file at depth d is requested
FileRequested(answers, d) ==
    Listed(answers, d) /\ answers.list[d] = "ok"

InitTree ==
    /\ gReplies \in ApiAnswers
    /\ gOut = Resolved(<<>>)
    /\ gPc = "call"
    /\ MergeIdle /\ ParseIdle /\ FilesIdle /\ RunIdle /\ BaseIdle
    /\ OrderIdle /\ RunsIdle /\ DocsIdle

\* await this.documentProcessor.processGitHubRepository(githubUrl)
FetchRepository ==
    /\ gPc = "call"
    /\ gOut' = processGitHubRepository(gReplies)
    /\ gPc' = "done"
    /\ UNCHANGED <<gReplies, mergeVars, parseVars, filesVars, runVars,
                   baseVars, orderVars, runsVars, docsVars>>

NextTree == FetchRepository

SpecTree == InitTree /\ [][NextTree]_vars

(* processDocumentationUrl: the direct fetch, then the CORS proxies in    *)
(* order, then the fallback documentation                                 *)

corsProxies == <<"allorigins.win", "corsproxy.io", "cors-anywhere",
                 "thingproxy">>

\* strategy 0 is the direct fetch, strategy i the i-th proxy, and the one
\* after the last proxy is createFallbackDocumentation
Strategies == 0..Len(corsProxies)
Fallback == Len(corsProxies) + 1

\* what a fetch is answered:
\*   "failed"      the fetch rejects (network error, CORS)
\*   "status"      a response whose ok is false
\*   "empty"       an ok response with '' as body, or as contents
\*   "blank"       an ok response of white space only
\*   "html"        an ok response with a page, wrapped in JSON by allorigins
\*   "bare"        an ok response with a page that is not wrapped in JSON
\*   "unparsable"  an ok response on which cheerio or a selector throws
FetchReplies ==
    {"failed", "status", "empty", "blank", "html", "bare", "unparsable"}

\* response.ok
Ok(reply) == reply \notin {"failed", "status"}

\* html as the strategy reads it from the response: [threw, text]; the
\* allorigins proxy is read with response.json(), the others with text()
ReadBody(strategy, reply) ==
    IF strategy > 0 /\ corsProxies[strategy] = "allorigins.win"
       /\ reply = "bare"
    THEN [threw |-> TRUE, text |-> ""]
    ELSE [threw |-> FALSE,
          text |-> CASE reply = "empty" -> ""
                     [] reply = "blank" -> " "
                     [] reply = "unparsable" -> "unparsable"
                     [] OTHER -> "page"]

\* !html || html.trim().length === 0
IsBlank(text) == text \in {"", " "}

\* parseDocumentationContent, returned without await: the promise of
\* processDocumentationUrl settles as the promise of the parser does
parseDocumentationContent(strategy, text) ==
    IF text = "unparsable"
    THEN [threw |-> TRUE, strategy |-> strategy]
    ELSE [threw |-> FALSE, strategy |-> strategy]

createFallbackDocumentation == [threw |-> FALSE, strategy |-> Fallback]

InitDocs ==
    /\ dReplies \in [Strategies -> FetchReplies]
    /\ dIdx = 0
    /\ dOut = [threw |-> FALSE, strategy |-> -1]
    /\ dPc = "direct"
    /\ MergeIdle /\ ParseIdle /\ FilesIdle /\ RunIdle /\ BaseIdle
    /\ OrderIdle /\ RunsIdle /\ TreeIdle

otherThanDocs == <<mergeVars, parseVars, filesVars, runVars, baseVars,
                   orderVars, runsVars, treeVars>>

\* the direct fetch settles
TryDirect ==
    /\ dPc = "direct"
    /\ IF Ok(dReplies[0])
       THEN /\ dOut' = parseDocumentationContent(0,
                          ReadBody(0, dReplies[0]).text)
            /\ dPc' = "done"
            /\ UNCHANGED dIdx
       ELSE /\ dPc' = "proxies"
            /\ dIdx' = 1
            /\ UNCHANGED dOut
    /\ UNCHANGED <<dReplies, otherThanDocs>>

\* the proxy in turn is of use: its response is ok and its body is read
\* and is not blank
Usable(strategy, reply) ==
    /\ Ok(reply)
    /\ ~ReadBody(strategy, reply).threw
    /\ ~IsBlank(ReadBody(strategy, reply).text)

\* the fetch through the proxy in turn settles: the body is parsed, or the
\* loop goes on to the next proxy and past the last one to the fallback
TryProxy ==
    /\ dPc = "proxies"
    /\ IF Usable(dIdx, dReplies[dIdx])
       THEN /\ dOut' = parseDocumentationContent(dIdx,
                          ReadBody(dIdx, dReplies[dIdx]).text)
            /\ dPc' = "done"
            /\ UNCHANGED dIdx
       ELSE IF dIdx < Len(corsProxies)
       THEN /\ dIdx' = dIdx + 1
            /\ UNCHANGED <<dOut, dPc>>
       ELSE /\ dOut' = createFallbackDocumentation
            /\ dPc' = "done"
            /\ UNCHANGED dIdx
    /\ UNCHANGED <<dReplies, otherThanDocs>>

NextDocs == TryDirect \/ TryProxy

SpecDocs == InitDocs /\ [][NextDocs]_vars

-----------------------------------------------------------------------------
(* Properties of the reconciler (checked under SpecMerge) *)

MergeDone == mPc = "done"

\* the catch block of mergeAnalyses ran for the inputs at hand
OuterCaught == MergeCaught(mBase, mLlm)

\* mergeSecurityAnalyses was entered and its catch block ran
InnerCaught ==
    /\ ~OuterCaught
    /\ SecurityCaught(mBase.security, mLlm.security)

SummaryFields == {"keyFeatures", "overview", "web3Fundamentals",
                  "riskAssessment", "description"}
SecurityFields == {"strengths", "recommendations", "rating", "businessLogic",
                   "auditStatus"}

\* the merge of the field's section was abandoned and the base section kept
FellBack(f) == OuterCaught \/ (f \in SecurityFields /\ InnerCaught)

ListFields == {"keyFeatures", "designPatterns", "strengths",
               "recommendations"}

ReportLists(r) ==
    [keyFeatures |-> r.summary.keyFeatures,
     designPatterns |-> r.architecture.designPatterns,
     strengths |-> r.security.strengths,
     recommendations |-> r.security.recommendations]

\* the entries the enhancement supplies for each list field (none when the
\* field is missing or is not a list)
EnhancementLists(l) ==
    [keyFeatures |-> l.summary.keyFeatures.items,
     designPatterns |-> l.architecture.designPatterns.items,
     strengths |-> l.security.strengths.items,
     recommendations |-> l.security.recommendations.items]

FirstIdx(s, x) ==
    CHOOSE i \in 1..Len(s) : s[i] = x /\ \A j \in 1..(i - 1) : s[j] # x

\* m is baseList followed by the entries of enh that are not in baseList,
\* each once, in the order of their first occurrence in enh
IsOrderedUnion(m, baseList, enh) ==
    /\ NoDuplicates(m)
    /\ Len(m) >= Len(baseList)
    /\ SubSeq(m, 1, Len(baseList)) = baseList
    /\ SeqToSet(m) = SeqToSet(baseList) \cup SeqToSet(enh)
    /\ \A i, j \in (Len(baseList) + 1)..Len(m) :
            i < j => FirstIdx(enh, m[i]) < FirstIdx(enh, m[j])

\* C1: mergeAnalyses is total: whatever the enhancement (well-formed, with
\* missing sections, with non-iterable fields, or null), the call returns a
\* report and does not throw.
C1_MergeTotal ==
    MergeDone =>
        /\ ~mOut.threw
        /\ mOut.value.timestamp \in {TBase, TMerge}
        /\ mOut.value.security.rating \in {"base", "llm"}

C1_Witness ==
    /\ MergeDone
    /\ mLlm.present /\ mLlm.summary.present
    /\ mLlm.summary.keyFeatures.kind = "noniterable"
    /\ mOut.value = mBase

\* C2: the merge is all-or-nothing: when an exception is raised while merging
\* any section, inside mergeSecurityAnalyses included, every section of the
\* returned report equals the base section.
C2_AllOrNothing ==
    (MergeDone /\ (OuterCaught \/ InnerCaught)) =>
        /\ mOut.value.summary = mBase.summary
        /\ mOut.value.architecture = mBase.architecture
        /\ mOut.value.security = mBase.security

\* C3 as stated: for every enhancement input each merged list field is the
\* base entries in base order followed by the enhancement-only entries in
\* enhancement order, without duplicates.
C3_UnionForEveryInput ==
    MergeDone =>
        \A f \in ListFields :
            IsOrderedUnion(ReportLists(mOut.value)[f], ReportLists(mBase)[f],
                           EnhancementLists(mLlm)[f])

\* C3 amended: a merged list field is that ordered union when the merge of
\* its section raised no exception and is the base list unchanged when it
\* did; in both cases every base entry is still present.
C3_UnionUnlessFallback ==
    MergeDone =>
        \A f \in ListFields :
            LET m == ReportLists(mOut.value)[f]
                b == ReportLists(mBase)[f]
            IN  /\ SeqToSet(b) \subseteq SeqToSet(m)
                /\ IF FellBack(f) THEN m = b
                   ELSE IsOrderedUnion(m, b, EnhancementLists(mLlm)[f])

C3_Witness ==
    /\ MergeDone
    /\ ~OuterCaught /\ ~InnerCaught
    /\ mLlm.security.strengths = ArrayOf(<<"e2", "e1">>)
    /\ mOut.value.security.strengths = <<"b2", "b1", "e2", "e1">>
    /\ mLlm.security.recommendations = ArrayOf(<<"e1", "b1">>)
    /\ mOut.value.security.recommendations = <<"b1", "b2", "e1">>

\* the enhancement supplies a non-empty findings list
SuppliesFindings(l) ==
    /\ l.security.vulnerabilities.kind = "array"
    /\ Len(l.security.vulnerabilities.items) > 0

\* the base findings with every plain string turned into a structured
\* finding of severity Medium with the generic mitigation text
CoercedBaseFindings(b) ==
    LET vs == b.security.vulnerabilities
    IN  [i \in 1..Len(vs) |->
            IF vs[i].kind = "string"
            THEN [kind |-> "struct", name |-> vs[i].name,
                  description |-> vs[i].name, severity |-> "Medium",
                  exploitability |-> "Medium", category |-> "General",
                  mitigation |-> "Review and address this vulnerability"]
            ELSE vs[i]]

FindingsRule ==
    mOut.value.security.vulnerabilities =
        IF SuppliesFindings(mLlm) THEN mLlm.security.vulnerabilities.items
        ELSE CoercedBaseFindings(mBase)

ReportScalars(r) ==
    [description |-> r.summary.description,
     overview |-> r.summary.overview,
     web3Fundamentals |-> r.summary.web3Fundamentals,
     riskAssessment |-> r.summary.riskAssessment,
     dataFlow |-> r.architecture.dataFlow,
     interactionDiagram |-> r.architecture.interactionDiagram,
     inheritanceDiagram |-> r.architecture.inheritanceDiagram,
     rating |-> r.security.rating,
     businessLogic |-> r.security.businessLogic,
     auditStatus |-> r.security.auditStatus]

ScalarFields == DOMAIN ReportScalars(BaseReport(<<>>))

\* string fields the object literal takes over from the base by spreading
KeptFields == {"description"}

\* C5 as stated: every scalar string field of the merged report is the
\* enhancement's value when that is present and non-empty, else the base's.
C5_EveryScalarOverridden ==
    MergeDone =>
        \A f \in ScalarFields :
            ReportScalars(mOut.value)[f] =
                IF Truthy(ReportScalars(mLlm)[f])
                THEN ReportScalars(mLlm)[f]
                ELSE ReportScalars(mBase)[f]

\* C5 amended: overview, web3Fundamentals, riskAssessment, the three
\* diagrams, rating, businessLogic and auditStatus take the enhancement's
\* value when it is present and non-empty and the merge of their section
\* raised no exception, and the base value otherwise; name, description and
\* category always keep the base value.
C5_NarrativeOverriddenUnlessFallback ==
    MergeDone =>
        \A f \in ScalarFields :
            ReportScalars(mOut.value)[f] =
                IF f \notin KeptFields /\ ~FellBack(f)
                    /\ Truthy(ReportScalars(mLlm)[f])
                THEN ReportScalars(mLlm)[f]
                ELSE ReportScalars(mBase)[f]

C5_Witness ==
    /\ MergeDone
    /\ ~OuterCaught /\ ~InnerCaught
    /\ mLlm.summary.overview = EmptyStr
    /\ mOut.value.summary.overview = "base"
    /\ mLlm.summary.web3Fundamentals = "llm"
    /\ mOut.value.summary.web3Fundamentals = "llm"
    /\ mLlm.summary.description = "llm"
    /\ mOut.value.summary.description = "base"


-----------------------------------------------------------------------------
(* Properties of the contract analyzer (SpecParse, SpecFiles) *)

ParseDone == pPc = "done"

HasContractDeclaration(content) ==
    content.isString /\ content.contracts # <<>>

\* C8: for a source text without a contract declaration
\* parseSolidityContract returns null ("no contract"), and it throws for no
\* input at all.
C8_NoContractIsNull ==
    ParseDone =>
        /\ ~pOut.threw
        /\ ~HasContractDeclaration(pFile.content) => pOut.value.isNull

C8_Witness ==
    /\ ParseDone
    /\ pFile.content.isString
    /\ pFile.content.contracts = <<>>
    /\ Len(pFile.content.functions) = 3
    /\ pOut.value.isNull
    /\ ~pOut.threw

\* positions of the files that are Solidity files with a contract
\* declaration that parseSolidityContract analyzes without an exception
AnalyzableFiles ==
    {i \in 1..Len(files) :
        files[i].type = "solidity" /\ HasContractDeclaration(files[i].content)}

\* C9: after analyzeSolidityContracts the fact list holds exactly one entry
\* for every Solidity file that has a contract declaration and was analyzed
\* without error, in discovery order, and no entry for any other file; a
\* failing file or one without a contract does not stop the loop.
C9_OneEntryPerContractFile ==
    fPc = "returned" =>
        /\ fIdx = Len(solidityFiles(files))
        /\ Len(analyses) = Cardinality(AnalyzableFiles)
        /\ \A i \in AnalyzableFiles :
            LET k == Cardinality({j \in AnalyzableFiles : j <= i})
            IN  /\ ~analyses[k].isNull
                /\ analyses[k].fileName = files[i].name
                /\ analyses[k].contractName =
                        files[i].content.contracts[1].name

C9_Witness ==
    /\ fPc = "returned"
    /\ Len(files) = 3
    /\ files[1].type = "solidity" /\ ~files[1].content.isString
    /\ files[2].type = "solidity" /\ files[2].content = LibraryText
    /\ files[3].type = "solidity" /\ files[3].content = VaultText
    /\ Len(analyses) = 1
    /\ analyses[1].fileName = 3
    /\ analyses[1].contractName = "Vault"

Clamp(x, lo, hi) == IF x < lo THEN lo ELSE IF x > hi THEN hi ELSE x

\* clamp(3 + 0.5 f + 0.3 m + 0.2 i + 0.4 l, 0, 10), in tenths
LinearProxy(f, m, i, l) == Clamp(30 + 5 * f + 3 * m + 2 * i + 4 * l, 0, 100)

\* C10 as stated: complexityScore is
\* clamp(3 + 0.5*functionCount + 0.3*modifierCount + 0.2*ifCount
\* + 0.4*loopCount, 0, 10), so 3 for a file with none of them and 5.2 for 3
\* functions, 1 modifier, 2 conditionals and 0 loops.
C10_LinearProxyFormula ==
    (ParseDone /\ ~pOut.value.isNull) =>
        pOut.value.complexity =
            LinearProxy(Len(pFile.content.functions),
                        Len(pFile.content.modifiers), pFile.content.ifs,
                        pFile.content.loops)

\* C10 amended: complexityScore is min((2*functionCount + conditionalCount
\* + 3*externalCallCount) / 10, 10), where conditionalCount counts if, while
\* and for together and modifiers do not count; a file with none of them
\* scores 0, and 3 functions, 1 modifier, 2 conditionals, no loop and no
\* low-level call score 0.8.
C10_WeightedCountOverTen ==
    (ParseDone /\ ~pOut.value.isNull) =>
        LET c == pFile.content
            raw == 2 * Len(c.functions) + c.ifs + c.loops + 3 * c.calls
        IN  /\ pOut.value.complexity = (IF raw >= 100 THEN 100 ELSE raw)
            /\ pOut.value.complexity \in 0..100
            /\ raw = 0 => pOut.value.complexity = 0
            /\ (Len(c.functions) = 3 /\ c.ifs = 2 /\ c.loops = 0
                    /\ c.calls = 0) => pOut.value.complexity = 8

C10_Witness ==
    /\ ParseDone /\ ~pOut.value.isNull
    /\ Len(pFile.content.functions) = 3
    /\ Len(pFile.content.modifiers) = 1
    /\ pFile.content.ifs = 2
    /\ pFile.content.loops = 0
    /\ pFile.content.calls = 0
    /\ pOut.value.complexity = 8

-----------------------------------------------------------------------------
(* Properties of a run (checked under Spec) *)

\* the sub-call ended without a value: callLLMAPI failed or gave no JSON
\* value ("null"), or the call threw outside its own try block ("rejected")
SubFailed(k) == sub[k].state \in {"null", "rejected"}

EnhancerFailed == \E k \in SubCalls : SubFailed(k)

\* analyzeProtocol returned from its enhancement branch
ReturnedFromEnhancement == llmEnabled /\ ePc = "returned"

Section(r, k) ==
    CASE k = "summary" -> [s |-> r.summary]
      [] k = "architecture" -> [s |-> r.architecture]
      [] OTHER -> [s |-> r.security]

SameContent(r, b) == \A k \in SubCalls : Section(r, k) = Section(b, k)

TimedOutIn(ph) == timeoutPhase = ph

-----------------------------------------------------------------------------
(* Properties of the base analysis (checked under SpecBase) *)

Facts == bRepo.contractAnalysis

FactsReady == bPc \in {"facts", "base", "returned"}

BaseReady == bPc \in {"base", "returned"}

Returned == bPc = "returned"

\* a score in tenths lies in [0, 10]
InScoreRange(x) == x \in 0..100

\* C11: every complexity score of a report lies in [0, 10]: the complexity
\* of every ContractAnalysis record and the summary's complexityScore, in
\* the base report and in the report returned after the enhancement.
C11_ScoresWithinRange ==
    /\ FactsReady => \A i \in 1..Len(Facts) : InScoreRange(Facts[i].complexity)
    /\ BaseReady => InScoreRange(bBase.summary.complexityScore)
    /\ Returned => InScoreRange(bOut.summary.complexityScore)

\* two contracts, one of them at the cap, and an enhanced report
C11_Witness ==
    /\ Returned /\ llmEnabled
    /\ Len(Facts) = 2
    /\ Facts[1].complexity = 100
    /\ Facts[2].complexity = 81
    /\ bOut.summary.complexityScore = 91
    /\ bOut.summary.overview = "llm"

\* the text that is classified
ClassifiedContent == CategoryContent(bRepo, bDocs)

ExchangeKeywords == {"swap", "exchange", "dex"}
LendingKeywords == {"lending", "borrow"}

\* C12 as stated: a text with both an exchange keyword and a lending
\* keyword is never classified as lending.
C12_ExchangeBeforeLending ==
    (BaseReady /\ ClassifiedContent \cap ExchangeKeywords # {}
               /\ ClassifiedContent \cap LendingKeywords # {})
        => bBase.summary.category # "Lending Protocol"

\* the keyword groups in the order in which the code tests them; a group
\* matches when one of its keywords occurs, the token group when both do
CategoryTable ==
    << [any |-> {"lending", "borrow"}, all |-> {},
        category |-> "Lending Protocol"],
       [any |-> {"derivative", "perpetual", "futures"}, all |-> {},
        category |-> "Derivatives Trading"],
       [any |-> {"yield", "farm", "stake"}, all |-> {},
        category |-> "Yield Farming"],
       [any |-> {"governance", "voting", "dao"}, all |-> {},
        category |-> "Governance Protocol"],
       [any |-> {"bridge", "cross-chain"}, all |-> {},
        category |-> "Cross-Chain Bridge"],
       [any |-> {"nft", "erc721", "erc1155"}, all |-> {},
        category |-> "NFT Protocol"],
       [any |-> {}, all |-> {"token", "manage"},
        category |-> "Token Management"],
       [any |-> {"risk", "insurance"}, all |-> {},
        category |-> "Risk Management"],
       [any |-> {"defi", "swap", "liquidity"}, all |-> {},
        category |-> "DeFi Protocol"] >>

GroupMatches(g, content) ==
    IF g.all # {} THEN g.all \subseteq content ELSE g.any \cap content # {}

\* C12 amended: the groups are tested in the order lending/borrow,
\* derivatives, yield, governance, bridge, NFT, token management, risk,
\* and last defi/swap/liquidity; the first matching group gives the
\* category and 'Other' is the default.  There is no exchange category: a
\* swap keyword gives 'DeFi Protocol' only when no earlier group matches,
\* so a text with swap and lending is a 'Lending Protocol'.
C12_LendingFirstSwapLast ==
    BaseReady =>
        LET matching == {i \in 1..Len(CategoryTable) :
                            GroupMatches(CategoryTable[i], ClassifiedContent)}
        IN  IF matching = {} THEN bBase.summary.category = "Other"
            ELSE \E i \in matching :
                    /\ \A j \in matching : i <= j
                    /\ bBase.summary.category = CategoryTable[i].category

C12_Witness ==
    /\ BaseReady
    /\ bDocs.content = {"swap", "lending"}
    /\ bBase.summary.category = "Lending Protocol"

\* C13 as stated: for an empty fact list the average complexity is the
\* default 5 both in the summary and in the security rating, and nothing is
\* divided by the zero count.
C13_EmptyAverageIsDefault ==
    (BaseReady /\ Len(Facts) = 0) =>
        /\ bBase.summary.complexityScore = DefaultAverage
        /\ ~RatingAverage(Facts).nan
        /\ RatingAverage(Facts).value = TenthsToDouble(DefaultAverage)

\* the grades of SecurityRating, worst first
Grades == <<"F", "D", "C-", "C", "C+", "B-", "B", "B+", "A-", "A", "A+">>

GradeRank(g) == CHOOSE i \in 1..Len(Grades) : Grades[i] = g

\* C14 as stated: in every returned report, base or merged with any
\* enhancement, security.rating is one of the fixed grades.
C14_RatingIsAGrade ==
    /\ BaseReady => bBase.security.rating \in SeqToSet(Grades)
    /\ Returned => bOut.security.rating \in SeqToSet(Grades)

\* the security markers the rating looks at
Markers(contracts) ==
    <<hasAccessControl(contracts), hasReentrancyGuard(contracts),
      hasPausable(contracts)>>

\* the sum and the count of the complexities of a fact list, the average
\* of an empty list being the neutral default
AverageOf(contracts) ==
    [sum |-> IF Len(contracts) = 0 THEN DefaultAverage
             ELSE SumComplexity(contracts),
     count |-> IF Len(contracts) = 0 THEN 1 ELSE Len(contracts)]

\* average a <= average b
AverageLeq(a, b) == a.sum * b.count <= b.sum * a.count

\* what the comparison of two fact lists looks at
RatingFacts(contracts) ==
    [markers |-> Markers(contracts), average |-> AverageOf(contracts),
     rating |-> calculateSecurityRating(contracts)]

\* the fact lists the rating of the run is compared with
OtherFactLists ==
    {RatingFacts(analyzeSolidityContracts(fs)) : fs \in RepoFileLists}

C16_StrengthsNeverEmpty ==
    /\ BaseReady =>
        /\ Len(bBase.security.strengths) > 0
        /\ Len(DetectedStrengths(bRepo)) = 0
              => bBase.security.strengths = DefaultStrengths
    /\ Returned =>
        /\ Len(bOut.security.strengths) > 0
        /\ SeqToSet(bBase.security.strengths)
              \subseteq SeqToSet(bOut.security.strengths)

C16_Witness ==
    /\ Returned /\ llmEnabled
    /\ Len(DetectedStrengths(bRepo)) = 0
    /\ bOut.security.strengths = DefaultStrengths \o <<"e1">>

\* C17 as stated: every returned report has a non-empty findings list.
C17_FindingsNeverEmpty ==
    Returned => Len(bOut.security.vulnerabilities) > 0

\* some analyzed contract declares a function named pause
DeclaresPause(contracts) ==
    \E i \in 1..Len(contracts) : \E j \in 1..Len(contracts[i].functions) :
        contracts[i].functions[j].name = "pause"

HasPauseStrength(r) == PauseStrength \in SeqToSet(r.security.strengths)

\* C18 as stated: whenever some analyzed contract declares a function named
\* pause, the strengths include the pause-mechanism entry.
C18_PauseFunctionGivesStrength ==
    (BaseReady /\ DeclaresPause(Facts)) => HasPauseStrength(bBase)

\* C18 amended: the base strengths include the pause-mechanism entry
\* exactly when some analyzed contract imports a path containing
\* 'Pausable'; a function named pause does not count.  The merge keeps the
\* entry.
C18_PausableImportGivesStrength ==
    /\ BaseReady =>
        (HasPauseStrength(bBase)
            <=> \E i \in 1..Len(Facts) : \E j \in 1..Len(Facts[i].imports) :
                    "Pausable" \in Facts[i].imports[j])
    /\ (Returned /\ HasPauseStrength(bBase)) => HasPauseStrength(bOut)

\* contract Vault is Ownable with six functions, one of them pause, and no
\* Pausable import: no pause entry
C18_Witness ==
    /\ BaseReady
    /\ Len(Facts) = 1
    /\ Facts[1].contractName = "Vault"
    /\ Len(Facts[1].functions) = 6
    /\ DeclaresPause(Facts)
    /\ ~HasPauseStrength(bBase)

\* the flowchart that links each node to the next
ChainOf(nodes) == [i \in 1..(Len(nodes) - 1) |-> <<nodes[i], nodes[i + 1]>>]

\* C19 as stated: for an empty contract list the data-flow diagram is the
\* chain user, entry point, per-contract node, external-call node, event
\* node, and the other two diagrams are their default templates.
C19_DocumentedDataFlowDefault ==
    (BaseReady /\ Len(Facts) = 0) =>
        /\ bDiagrams.dataFlow =
              ChainOf(<<"User", "Entry Point", "Contract", "External Calls",
                        "Event Emission">>)
        /\ bDiagrams.interactionDiagram = InteractionTemplate
        /\ bDiagrams.inheritanceDiagram = InheritanceTemplate

\* C19 amended: for an empty contract list each diagram is its fixed
\* template; the data-flow template is the chain User Interface, Protocol
\* Entry Point, Business Logic, State Management, Asset Storage.  The chain
\* from the user over the entry point and the contract nodes to the
\* external calls and the event emission is the chart of a non-empty list.
C19_FixedTemplatesWhenEmpty ==
    /\ (BaseReady /\ Len(Facts) = 0) =>
        /\ bDiagrams.dataFlow =
              ChainOf(<<"User Interface", "Protocol Entry Point",
                        "Business Logic", "State Management",
                        "Asset Storage">>)
        /\ bDiagrams.interactionDiagram = InteractionTemplate
        /\ bDiagrams.inheritanceDiagram = InheritanceTemplate
    /\ (BaseReady /\ Len(Facts) > 0) =>
        LET df == bDiagrams.dataFlow
        IN  /\ df[1] = <<"User", "Entry Point">>
            /\ df[2] = <<"Entry Point", "C0", Facts[1].contractName>>
            /\ df[Len(df) - 1] = <<"C0", "External Calls">>
            /\ df[Len(df)] = <<"External Calls", "Event Emission">>

\* files were listed but none declares a contract
C19_Witness ==
    /\ BaseReady
    /\ Len(bFiles) > 0
    /\ Len(Facts) = 0
    /\ Len(bDiagrams.dataFlow) = 4
    /\ bDiagrams.dataFlow[4] = <<"State Management", "Asset Storage">>

-----------------------------------------------------------------------------
(* Uniqueness of contract names (checked under SpecFiles) *)

\* C20 as stated: no two records of the fact list have the same
\* contractName.
C20_ContractNamesUnique ==
    \A i, j \in 1..Len(analyses) :
        i # j => analyses[i].contractName # analyses[j].contractName

-----------------------------------------------------------------------------
(* Function facts (checked under SpecParse) *)

\* the function declarations of the parsed file that the scan matches
MatchedDeclarations ==
    SelectSeq(pFile.content.functions, LAMBDA d : d.hasBody)

\* the first word of a declaration that belongs to a keyword set
DeclaredKeyword(specs, keywords) ==
    LET hits == SelectSeq(specs, LAMBDA w : w \in keywords)
    IN  IF hits = <<>> THEN Undefined ELSE hits[1]

ParsedContract == pPc = "done" /\ ~pOut.value.isNull

\* C21 as stated: every function fact carries the declared visibility and
\* mutability; without a visibility keyword the visibility is external,
\* without a mutability keyword the mutability is nonpayable.
C21_DeclaredOrExternal ==
    ParsedContract =>
        /\ Len(pOut.value.functions) = Len(MatchedDeclarations)
        /\ \A i \in 1..Len(MatchedDeclarations) :
            LET d == MatchedDeclarations[i]
                f == pOut.value.functions[i]
            IN  /\ f.name = d.name
                /\ f.visibility =
                      OrElse(DeclaredKeyword(d.specifiers, Visibilities),
                             "external")
                /\ f.stateMutability =
                      OrElse(DeclaredKeyword(d.specifiers, Mutabilities),
                             "nonpayable")

\* C21 amended: a function fact carries the visibility keyword that
\* directly follows the parameter list and otherwise 'internal'; it
\* carries the mutability keyword that comes next and otherwise
\* 'nonpayable'.  A declaration written visibility first, mutability second
\* therefore keeps both.
C21_LeadingKeywordsOrInternal ==
    ParsedContract =>
        /\ Len(pOut.value.functions) = Len(MatchedDeclarations)
        /\ \A i \in 1..Len(MatchedDeclarations) :
            LET d == MatchedDeclarations[i]
                f == pOut.value.functions[i]
                sp == d.specifiers
                vis == Len(sp) > 0 /\ sp[1] \in Visibilities
                k == IF vis THEN 2 ELSE 1
                mut == Len(sp) >= k /\ sp[k] \in Mutabilities
            IN  /\ f.name = d.name
                /\ f.visibility = (IF vis THEN sp[1] ELSE "internal")
                /\ f.stateMutability = (IF mut THEN sp[k] ELSE "nonpayable")

\* a declaration without keywords next to one declared view external
C21_Witness ==
    /\ ParsedContract
    /\ Len(MatchedDeclarations) = 2
    /\ MatchedDeclarations[1].specifiers = <<>>
    /\ pOut.value.functions[1].visibility = "internal"
    /\ pOut.value.functions[1].stateMutability = "nonpayable"
    /\ MatchedDeclarations[2].specifiers = <<"view", "external">>
    /\ pOut.value.functions[2].visibility = "internal"
    /\ pOut.value.functions[2].stateMutability = "view"

-----------------------------------------------------------------------------
(* Properties of generateBaseAnalysis (checked under SpecGenerate) *)

\* the parts of a base report that are computed from the facts
Computed(r) ==
    [category |-> r.summary.category,
     complexityScore |-> r.summary.complexityScore,
     rating |-> r.security.rating,
     strengths |-> r.security.strengths,
     recommendations |-> r.security.recommendations,
     designPatterns |-> r.architecture.designPatterns]

\* C22 as stated: for any two orderings of the same facts the category,
\* summary complexity score, security rating, strengths, recommendations
\* and design patterns of the base report are identical.
C22_OrderIndependent ==
    (oPc = "reordered") => Computed(oReordered) = Computed(oBase)

-----------------------------------------------------------------------------
(* The three calls of the adapter (checked under Spec) *)

\* the section the adapter hands on for sub-call k: the value the call
\* delivered or, after a failure, the base section
HandedOn(k) ==
    IF sub[k].state = "value" THEN sub[k].value
    ELSE CASE k = "summary" -> AsLlmSummary(eBase.summary)
           [] k = "architecture" -> AsLlmArchitecture(eBase.architecture)
           [] OTHER -> AsLlmSecurity(eBase.security)

AdapterReturned ==
    /\ llmEnabled
    /\ ePc = "returned"
    /\ \A k \in SubCalls : sub[k].state # "rejected"

\* C23: the three sub-calls are issued together; the adapter returns, and
\* the merge starts, only when all three have completed with a result or a
\* failure; the enhancement handed to the merge is determined section by
\* section by the outcome of that section's sub-call alone, whatever the
\* order of completion; and a completed sub-call keeps its outcome while
\* the others complete.
C23_MergeAfterAllThree ==
    /\ [](\/ \A k \in SubCalls : sub[k].state = "idle"
          \/ \A k \in SubCalls : sub[k].state # "idle")
    /\ [](AdapterReturned =>
            /\ \A k \in SubCalls : sub[k].state \in {"null", "value"}
            /\ eLlm.summary = HandedOn("summary")
            /\ eLlm.architecture = HandedOn("architecture")
            /\ eLlm.security = HandedOn("security"))
    /\ [][\A k \in SubCalls :
            sub[k].state \in {"null", "value", "rejected"}
                => sub'[k] = sub[k]]_vars

\* the summary call failed, the other two delivered
C23_Witness ==
    /\ AdapterReturned
    /\ sub.summary.state = "null"
    /\ sub.architecture.state = "value"
    /\ sub.security.state = "value"
    /\ eLlm.summary = AsLlmSummary(eBase.summary)
    /\ eLlm.architecture = sub.architecture.value
    /\ eLlm.security = sub.security.value

\* the lines of the data-flow chart that attach a node to the entry point
EntryLines == SelectSeq(oDiagrams.dataFlow, LAMBDA l : l[1] = "Entry Point")

HasLine(diagram, l) == \E i \in 1..Len(diagram) : diagram[i] = l

\* the business-logic / state-update chain hangs on node n
HasSubChain(n) ==
    /\ HasLine(oDiagrams.dataFlow, <<n, n \o "_Logic", "Business Logic">>)
    /\ HasLine(oDiagrams.dataFlow,
               <<n \o "_Logic", n \o "_State", "State Updates">>)

Generated == oPc \in {"base", "reordered"}

\* C24: for a non-empty contract list the data-flow graph has exactly one
\* node per contract, each attached to the entry point, and the node of a
\* contract carries the business-logic / state-update chain if and only
\* if the contract has more than 5 functions.
C24_OneNodePerContract ==
    (Generated /\ Len(oFacts) > 0) =>
        /\ EntryLines =
              [i \in 1..Len(oFacts) |->
                  <<"Entry Point", NodeId(i), oFacts[i].contractName>>]
        /\ \A i \in 1..Len(oFacts) :
              HasSubChain(NodeId(i)) <=> Len(oFacts[i].functions) > 5

\* Vault with six functions next to Pool with exactly five
C24_Witness ==
    /\ Generated
    /\ oFacts = <<VaultFacts, PoolFacts>>
    /\ Len(oFacts[2].functions) = 5
    /\ HasSubChain("C0")
    /\ ~HasSubChain("C1")
    /\ Len(oDiagrams.dataFlow) = 7

\* contract a might use contract b by the documented heuristic
MightUse(a, b) ==
    \/ \E k \in 1..Len(a.functions) :
            FunctionNameIncludes(a.functions[k].name, b.contractName)
    \/ LowerNameIncludes(b.contractName, "factory")
    \/ LowerNameIncludes(b.contractName, "manager")

\* C25 as stated: for every ordered pair of distinct analyzed contracts
\* (A, B) the inheritance graph has an "A uses B" edge whenever a function
\* name of A contains B's name or B's name contains factory or manager,
\* however many functions A has.
C25_UsesEdgeForEveryPair ==
    Generated =>
        \A i, j \in 1..Len(oFacts) :
            (i # j /\ MightUse(oFacts[i], oFacts[j]))
                => HasLine(oDiagrams.inheritanceDiagram,
                           <<oFacts[i].contractName, "-->",
                             oFacts[j].contractName>>)

\* the same facts without their events
StripEvents(contracts) ==
    [i \in 1..Len(contracts) |-> [contracts[i] EXCEPT !.events = <<>>]]

UsesEvents(contracts) ==
    \E i \in 1..Len(contracts) : Len(contracts[i].events) > 0

\* some contract imports a path containing the word
Imports(contracts, word) ==
    \E i \in 1..Len(contracts) : \E j \in 1..Len(contracts[i].imports) :
        word \in contracts[i].imports[j]

\* C26 as stated: the score is the base score plus a bonus for each of the
\* detectors access-control markers, event usage and pause functions that
\* fires, minus the complexity penalty; a fact list in which some contract
\* uses events scores strictly higher than the same list without events.
C26_EventsRaiseScore ==
    (Generated /\ UsesEvents(oFacts)) =>
        /\ oBase.security.rating = gradeOf(securityScore(oFacts))
        /\ securityScore(oFacts) > securityScore(StripEvents(oFacts))

\* C26 amended: the score is 70, plus 10 when some contract imports
\* AccessControl or Ownable, plus 10 when some contract imports
\* ReentrancyGuard, plus 5 when some contract imports Pausable, minus 15
\* when the average complexity exceeds 8 and otherwise minus 10 when it
\* exceeds 6; event usage and function names do not change it.
C26_ImportBonuses ==
    Generated =>
        LET avg == RatingAverage(oFacts)
            score ==
                70
                + (IF Imports(oFacts, "AccessControl")
                      \/ Imports(oFacts, "Ownable") THEN 10 ELSE 0)
                + (IF Imports(oFacts, "ReentrancyGuard") THEN 10 ELSE 0)
                + (IF Imports(oFacts, "Pausable") THEN 5 ELSE 0)
                - (IF AverageExceeds(avg, 8) THEN 15
                   ELSE IF AverageExceeds(avg, 6) THEN 10 ELSE 0)
        IN  /\ securityScore(oFacts) = score
            /\ oBase.security.rating = gradeOf(score)
            /\ securityScore(StripEvents(oFacts)) = score

\* Pool uses an event, imports ReentrancyGuard and Pausable and has
\* complexity 9.8: 70 + 10 + 5 - 15 = 70 with and without the event
C26_Witness ==
    /\ Generated
    /\ oFacts = <<PoolFacts>>
    /\ UsesEvents(oFacts)
    /\ securityScore(oFacts) = 70
    /\ securityScore(StripEvents(oFacts)) = 70
    /\ oBase.security.rating = "B-"

-----------------------------------------------------------------------------
(* Properties of the interface across runs *)

\* the run whose updateState(completeState) made the status complete
Latest == Len(rRuns)

\* C27: whenever the status is complete the stored result is not null and
\* is the result analyzeProtocol was fulfilled with in the run that has
\* just completed, the most recent one; a run hands its result over before
\* it makes the status complete.
C27_CompleteHasResultOfRun ==
    /\ rState.status = "complete"
        => /\ rResult # 0
           /\ rResult = Latest
           /\ rRuns[Latest].pc = "done"
           /\ rRuns[Latest].race = "fulfilled"
           /\ rRuns[Latest].engine = "fulfilled"
    /\ \A r \in 1..Len(rRuns) :
        rRuns[r].pc = "handed" => rResult = r /\ rState.status = "processing"

\* the second run completed and its result replaced that of the first
C27_Witness ==
    /\ Len(rRuns) = 2
    /\ rRuns[1].race = "fulfilled"
    /\ rState.status = "complete"
    /\ rResult = 2

\* the timeout won the race of run r
TimedOut(r) == rRuns[r].race = "timeout"

\* C28: a run whose 5-minute timer fires while the race is pending ends in
\* status error with the timeout message; the result of its analyzeProtocol
\* call, arriving later, is never handed to onAnalysisComplete and changes
\* neither the status nor the stored result, also when a new run has
\* started in between.
C28_LateResultIsDropped ==
    /\ [](\A r \in 1..Len(rRuns) :
            TimedOut(r)
                => /\ rRuns[r].pc = "done"
                   /\ rResult # r
                   /\ r = Latest => /\ rState.status = "error"
                                    /\ rState.message = "timeout")
    /\ [][\A r \in 1..Len(rRuns) :
            (TimedOut(r) /\ rRuns'[r].engine # rRuns[r].engine)
                => /\ rState' = rState
                   /\ rResult' = rResult
                   /\ \A q \in 1..Len(rRuns) : rRuns'[q].pc = rRuns[q].pc]_vars

\* the first run timed out; its analyzeProtocol call was fulfilled while
\* the second run was under way, and the second run completed with its
\* own result
C28_Witness ==
    /\ Len(rRuns) = 2
    /\ TimedOut(1)
    /\ rRuns[1].engine = "fulfilled"
    /\ rRuns[2].race = "fulfilled"
    /\ rState.status = "complete"
    /\ rResult = 2

-----------------------------------------------------------------------------
(* Properties of the repository fetch *)

\* a rate-limit error came back while a file's content was fetched or a
\* sub-directory was listed
RateLimitedBelowRoot ==
    \E d \in Depths :
        \/ FileRequested(gReplies, d) /\ gReplies.file[d] = "rate limit"
        \/ d > 0 /\ Listed(gReplies, d) /\ gReplies.list[d] = "rate limit"

\* C29: a GitHub rate-limit error raised while any file's content is
\* fetched or any sub-directory is listed aborts the processing of the
\* repository and reaches the caller of processGitHubRepository as a
\* rate-limit error; it is never swallowed.
C29_RateLimitReachesCaller ==
    (gPc = "done" /\ RateLimitedBelowRoot)
        => gOut.threw /\ "rate limit" \in gOut.markers

-----------------------------------------------------------------------------
(* Properties of the documentation fetch *)

\* the response of a strategy is successful and not empty
Successful(strategy) ==
    /\ Ok(dReplies[strategy])
    /\ ~IsBlank(ReadBody(0, dReplies[strategy]).text)

\* the first strategy with a successful non-empty response, the fallback
\* when there is none
FirstSuccessful ==
    IF \E i \in Strategies : Successful(i)
    THEN CHOOSE i \in Strategies :
            Successful(i) /\ \A j \in 0..(i - 1) : ~Successful(j)
    ELSE Fallback

\* C30: processDocumentationUrl tries the direct fetch and then each proxy
\* in order and returns the document parsed from the first strategy whose
\* response is successful and non-empty, and the fallback documentation
\* when every strategy fails; its promise is never rejected.
C30_FirstSuccessfulOrFallback ==
    dPc = "done"
        => /\ ~dOut.threw
           /\ dOut.strategy = FirstSuccessful

====
